---- MODULE Spec2Model ----
(***************************************************************************)
(* State-machine model of ssl_vista's scene-object / canvas core:          *)
(*   - SceneObject, SceneObjectBundle (plotters/pv_utils/scene_objects.py) *)
(*   - BaseVisualPlotter / BaseCanvasPlotter registry and focus callback   *)
(*   - SimulationGridContext and SimulationGrid (ui/grid.py)               *)
(*   - the Plotter2DCanvas / Plotter3DCanvas per-frame update              *)
(* Python's None is modelled as the empty sequence <<>> and a present      *)
(* value v as <<v>>.  Numeric arrays are modelled with integer entries.    *)
(***************************************************************************)
EXTENDS Integers, Sequences, FiniteSets, TLC

VARIABLES
    \* ---- one SceneObject (scene_objects.py) ----
    mesh,              \* points of self.mesh, a sequence of 3-vectors
    default_mesh,      \* points of self.default_mesh
    default_centroid,  \* self.default_centroid
    ctor,              \* the constructor arguments [pts, size] of this object
    lastOp,            \* the most recent method call on the object
    prevOp,            \* the call before it
    \* ---- SimulationGridContext (ui/grid.py) ----
    robot_focus,       \* context._robot_focus
    prev_robot_focus,  \* context._prev_robot_focus
    notified,          \* per subscriber: what its slot read, during the last setter call
    \* ---- one BaseCanvasPlotter (base_canvas.py, _base_plotters.py) ----
    dimension,         \* self.dimension, 2 or 3
    scene_objects,     \* self.scene_objects: insertion-ordered <<[name, obj]>>
    objs,              \* the SceneObjects created so far, by identity
    surface,           \* the actors on the render surface (self.pvqt), by identity
    robot_objs,        \* self._robot_objs: bundle identities
    gen,               \* number of init_artists runs that built robots
    canvasCall,        \* the most recent call on the canvas / context
    \* ---- one Plotter3DAttitude (plotter_3d_attitude.py) ----
    attitude,          \* [num_agents, current_R, sim_data, call]
    \* ---- a SimulationGrid of Plotter2DCanvas / Plotter3DCanvas ----
    cfg,               \* per grid cell: the canvas class and its robot_tail
    scene,             \* per grid cell: the canvas's scene_objects, <<[name, ent]>>
    lastCall,          \* per grid cell: the most recent call on that canvas
    gridCall,          \* the most recent call on the grid or on one canvas
    \* ---- one SceneObjectBundle (scene_objects.py) ----
    children,          \* self.children: insertion-ordered child records
    bundleCall,        \* the most recent method call on the bundle
    \* ---- MainWindow (ui/main_window.py) ----
    grid,              \* self.grid: None or the current grid, [id, scenes]
    timer,             \* whether the current grid's QTimer is active
    playing,           \* self.playing
    updated,           \* self.updated: Some(TRUE), Some(FALSE) or None
    sim_data,          \* self.sim_data: None or [id, T], T frames of data
    current_time_index,\* self.current_time_index
    time_slider,       \* the slider: [value, maximum, blocked]
    key_press_allowed, \* self.key_press_allowed
    alive,             \* FALSE once a handler has raised
    windowCall         \* the last event: [op, arg, frames, resets, err]

objVars == <<mesh, default_mesh, default_centroid, ctor, lastOp, prevOp>>
ctxVars == <<robot_focus, prev_robot_focus, notified>>
canvasVars ==
    <<dimension, scene_objects, objs, surface, robot_objs, gen, canvasCall,
      attitude>>

gridVars == <<cfg, scene, lastCall, gridCall>>

bundleVars == <<children, bundleCall>>

winVars == <<grid, timer, playing, updated, sim_data, current_time_index,
             time_slider, key_press_allowed, alive, windowCall>>

vars == <<objVars, ctxVars, canvasVars, gridVars, bundleVars, winVars>>

None == <<>>
Some(v) == <<v>>
IsNone(x) == x = <<>>
Val(x) == x[1]

(***************************************************************************)
(* Bounds of the model.                                                    *)
(***************************************************************************)
MaxCoord == 2    \* relative edits (translate/rotate/scale) stay in this box
MaxRobots == 2   \* robot count of a data set is 0..MaxRobots
MaxGen == 2      \* init_artists builds robots at most this many times
NumSubscribers == 2  \* plotters connected to the context's signal
MaxT == 4        \* time steps of a data set; time indices are 0..MaxT

(***************************************************************************)
(* 3-vector and 3x3 matrix arithmetic (numpy broadcasting on (N,3) arrays) *)
(***************************************************************************)
VAdd(p, q) == <<p[1] + q[1], p[2] + q[2], p[3] + q[3]>>
VSub(p, q) == <<p[1] - q[1], p[2] - q[2], p[3] - q[3]>>
VScale(k, p) == <<k * p[1], k * p[2], k * p[3]>>
Dot(r, p) == r[1] * p[1] + r[2] * p[2] + r[3] * p[3]
MatVec(R, p) == <<Dot(R[1], p), Dot(R[2], p), Dot(R[3], p)>>
Zero3 == <<0, 0, 0>>

Rz90 == << <<0, -1, 0>>, <<1, 0, 0>>, <<0, 0, 1>> >>

\* (R @ (pts - center).T).T + center
RotateAbout(pts, R, c) ==
    [i \in 1..Len(pts) |-> VAdd(MatVec(R, VSub(pts[i], c)), c)]
\* (pts - center) * scale_factor + center
ScaleAbout(pts, k, c) ==
    [i \in 1..Len(pts) |-> VAdd(VScale(k, VSub(pts[i], c)), c)]
\* a translation that starts from the default points
TranslateFromDefault(pts, v) ==
    [i \in 1..Len(default_mesh) |-> VAdd(default_mesh[i], v)]
\* pts + translation
TranslateBy(pts, v) ==
    [i \in 1..Len(pts) |-> VAdd(pts[i], v)]

MinOf(S) == CHOOSE x \in S : \A y \in S : x <= y
MaxOf(S) == CHOOSE x \in S : \A y \in S : x >= y

\* pyvista DataSet.center: the centre of the bounding box; (0,0,0) for an
\* empty mesh.  The meshes constructed below have even extents, so the
\* halving is exact.
Center(pts) ==
    IF Len(pts) = 0 THEN Zero3
    ELSE LET C(k) == LET S == {pts[i][k] : i \in 1..Len(pts)}
                     IN (MinOf(S) + MaxOf(S)) \div 2
         IN <<C(1), C(2), C(3)>>

InBox(pts) ==
    \A i \in 1..Len(pts) : \A k \in 1..3 :
        pts[i][k] >= -MaxCoord /\ pts[i][k] <= MaxCoord

(***************************************************************************)
(* SceneObject                                                             *)
(***************************************************************************)
\* an update_mesh_points without the point-count guard
UpdateMeshPointsUnguarded(cur, new) == new

\* update_mesh_points: replaces the points only when the counts agree
UpdateMeshPoints(cur, new) == IF Len(cur) = Len(new) THEN new ELSE cur

\* the body of transform(): always starts from default_mesh
TransformCumulative(cur, dflt, centroid, a) ==
    LET c  == IF IsNone(a.c) /\ (~IsNone(a.R) \/ ~IsNone(a.s))
              THEN centroid ELSE IF IsNone(a.c) THEN Zero3 ELSE Val(a.c)
        p1 == IF IsNone(a.R) THEN cur ELSE RotateAbout(cur, Val(a.R), c)
        p2 == IF IsNone(a.s) THEN p1 ELSE ScaleAbout(p1, Val(a.s), c)
        p3 == IF IsNone(a.t) THEN p2 ELSE TranslateBy(p2, Val(a.t))
    IN p3

\* a transform() that translates before it rotates and scales
TransformTranslateFirst(cur, dflt, centroid, a) ==
    LET c  == IF IsNone(a.c) /\ (~IsNone(a.R) \/ ~IsNone(a.s))
              THEN centroid ELSE IF IsNone(a.c) THEN Zero3 ELSE Val(a.c)
        p1 == IF IsNone(a.t) THEN dflt ELSE TranslateBy(dflt, Val(a.t))
        p2 == IF IsNone(a.R) THEN p1 ELSE RotateAbout(p1, Val(a.R), c)
        p3 == IF IsNone(a.s) THEN p2 ELSE ScaleAbout(p2, Val(a.s), c)
    IN p3

TransformPts(cur, dflt, centroid, a) ==
    LET pts == dflt
        c  == IF IsNone(a.c) /\ (~IsNone(a.R) \/ ~IsNone(a.s))
              THEN centroid ELSE IF IsNone(a.c) THEN Zero3 ELSE Val(a.c)
        p1 == IF IsNone(a.R) THEN pts ELSE RotateAbout(pts, Val(a.R), c)
        p2 == IF IsNone(a.s) THEN p1 ELSE ScaleAbout(p1, Val(a.s), c)
        p3 == IF IsNone(a.t) THEN p2 ELSE TranslateBy(p2, Val(a.t))
    IN p3

\* __init__: default_centroid = mesh.center; scale(size) if size != 1.0;
\* default_mesh = mesh.copy()
CtorCentroid(k) == Center(k.pts)
CtorMesh(k) ==
    IF k.size # 1
    THEN UpdateMeshPoints(k.pts, ScaleAbout(k.pts, k.size, CtorCentroid(k)))
    ELSE k.pts

\* meshes an object is constructed with: StraightLine, a triangle icon,
\* and the empty polyline of Line()
SegMesh == << <<0, 0, 0>>, <<2, 0, 0>> >>
TriMesh == << <<0, 0, 0>>, <<2, 0, 0>>, <<0, 2, 0>> >>
EmptyMesh == << >>
CtorArgs == [pts : {SegMesh, TriMesh, EmptyMesh}, size : {1, 2}]

\* argument values the methods are called with
Translations == {None, Some(<<1, 0, 0>>)}
Shifts == {<<1, 0, 0>>, <<0, -1, 0>>}
Rotations == {None, Some(Rz90)}
ScaleFactors == {None, Some(2)}
Centers == {None, Some(Zero3)}
TransformArgs == [t : Translations, R : Rotations, s : ScaleFactors, c : Centers]
NoArgs == [t |-> None, R |-> None, s |-> None, c |-> None]
\* replacement meshes passed to update_mesh (Line.set_points, Vector.update_vector)
NewMeshes == {EmptyMesh, << <<1, 1, 0>>, <<2, 2, 0>> >>}

Call(name, a) == [op |-> name, a |-> a]

(***************************************************************************)
(* Canvas state outside the canvas specification: a context and a canvas   *)
(* as constructed (SimulationGridContext.__init__, BaseVisualPlotter and   *)
(* BaseCanvasPlotter.__init__), never called.                              *)
(***************************************************************************)
\* Plotter3DAttitude.__init__: num_agents = 1 and current_R = np.eye(3),
\* which has no robot axis (None); sim_data is the data the grid last handed
\* to reset_scene; call.ran lists, for each run of update_axes_from_rotation
\* in the last call, the focus it read and the rows current_R had
NoAttitudeCall == [op |-> "init", ran |-> << >>, err |-> None]
AttitudeNew ==
    [num_agents |-> 1, current_R |-> None, sim_data |-> None,
     call |-> NoAttitudeCall]

NoCall == [op |-> "init", err |-> None, arg |-> None, oldFocus |-> None,
           oldPrev |-> None, populated |-> FALSE, allDefault |-> FALSE]

CanvasConstructed(d) ==
    /\ robot_focus = None
    /\ prev_robot_focus = None
    /\ notified = [s \in 1..NumSubscribers |-> << >>]
    /\ dimension = d
    /\ scene_objects = << >>
    /\ objs = << >>
    /\ surface = {}
    /\ robot_objs = << >>
    /\ gen = 0
    /\ canvasCall = NoCall
    /\ attitude = AttitudeNew

CanvasIdle == CanvasConstructed(2)

(***************************************************************************)
(* Grid state outside the grid specification: SimulationGrid(shape) with   *)
(* one Plotter3DCanvas() per cell, never called.                           *)
(***************************************************************************)
GridShape == <<1, 2>>
Cells == 1..(GridShape[1] * GridShape[2])

NoCanvasCall == [op |-> "init", err |-> None, n |-> 0, rot |-> FALSE,
                 idx |-> 0, painted |-> << >>]
NoGridCall == [op |-> "init", err |-> None, invoked |-> [c \in Cells |-> 0]]

GridConstructed(k) ==
    /\ cfg = k
    /\ scene = [c \in Cells |-> << >>]
    /\ lastCall = [c \in Cells |-> NoCanvasCall]
    /\ gridCall = NoGridCall

GridIdle == GridConstructed([c \in Cells |-> [variant |-> "3d", tail |-> None]])

(***************************************************************************)
(* Bundle state outside the bundle specification: SceneObjectBundle(),     *)
(* never called.                                                           *)
(***************************************************************************)
NoBundleCall == [op |-> "init", err |-> None, arg |-> None]
BundleIdle == children = << >> /\ bundleCall = NoBundleCall

(***************************************************************************)
(* Window state outside the window specification: MainWindow() with no     *)
(* layout and no data, never used.                                         *)
(***************************************************************************)
\* self.time_slider.setRange(0, 100) of the toolbar: the placeholder range
PlaceholderMax == 100
NoWindowCall == [op |-> "init", arg |-> None, frames |-> << >>,
                 resets |-> << >>, err |-> None]

\* MainWindow.__init__ with layout=None, data_path=None
WindowConstructed ==
    /\ grid = None
    /\ timer = FALSE
    /\ playing = FALSE
    /\ updated = Some(FALSE)
    /\ sim_data = None
    /\ current_time_index = 0
    /\ time_slider = [value |-> 0, maximum |-> PlaceholderMax, blocked |-> TRUE]
    /\ key_press_allowed = TRUE
    /\ alive = TRUE
    /\ windowCall = NoWindowCall

WindowIdle == WindowConstructed


ObjInit ==
    \E k \in CtorArgs :
        /\ ctor = k
        /\ mesh = CtorMesh(k)
        /\ default_mesh = CtorMesh(k)
        /\ default_centroid = CtorCentroid(k)
        /\ lastOp = Call("init", NoArgs)
        /\ prevOp = Call("init", NoArgs)
        /\ CanvasIdle
        /\ GridIdle
        /\ BundleIdle
        /\ WindowIdle

\* the two-call history; the arguments of the earlier call are kept only
\* while the later call is a transform
Logged(c) == /\ prevOp' = IF c.op = "transform" THEN lastOp
                          ELSE Call(lastOp.op, NoArgs)
             /\ lastOp' = c

\* SceneObject.transform
Transform(a) ==
    /\ mesh' = UpdateMeshPoints(mesh, TransformPts(mesh, default_mesh, default_centroid, a))
    /\ Logged(Call("transform", a))
    /\ UNCHANGED <<default_mesh, default_centroid, ctor>>

\* SceneObject.translate
Translate(v) ==
    /\ InBox(TranslateBy(mesh, v))
    /\ mesh' = UpdateMeshPoints(mesh, TranslateBy(mesh, v))
    /\ Logged(Call("translate", [NoArgs EXCEPT !.t = Some(v)]))
    /\ UNCHANGED <<default_mesh, default_centroid, ctor>>

\* SceneObject.rotate
Rotate(R, c) ==
    LET center == IF IsNone(c) THEN default_centroid ELSE Val(c)
        new == RotateAbout(mesh, R, center)
    IN /\ InBox(new)
       /\ mesh' = UpdateMeshPoints(mesh, new)
       /\ Logged(Call("rotate", NoArgs))
       /\ UNCHANGED <<default_mesh, default_centroid, ctor>>

\* SceneObject.scale
Scale(k, c) ==
    LET center == IF IsNone(c) THEN default_centroid ELSE Val(c)
        new == ScaleAbout(mesh, k, center)
    IN /\ InBox(new)
       /\ mesh' = UpdateMeshPoints(mesh, new)
       /\ Logged(Call("scale", NoArgs))
       /\ UNCHANGED <<default_mesh, default_centroid, ctor>>

\* SceneObject.update_mesh (used by Line.set_points): replaces the mesh
UpdateMesh(new) ==
    /\ mesh' = new
    /\ Logged(Call("update_mesh", NoArgs))
    /\ UNCHANGED <<default_mesh, default_centroid, ctor>>

\* SceneObject.update_mesh_points called directly (Axes.transform_to)
UpdateMeshPointsCall(new) ==
    /\ mesh' = UpdateMeshPoints(mesh, new)
    /\ Logged(Call("update_mesh_points", NoArgs))
    /\ UNCHANGED <<default_mesh, default_centroid, ctor>>

ObjNext ==
    /\ UNCHANGED <<ctxVars, canvasVars, gridVars, bundleVars, winVars>>
    /\ \/ \E a \in TransformArgs : Transform(a)
       \/ \E v \in Shifts : Translate(v)
       \/ \E c \in Centers : Rotate(Rz90, c)
       \/ \E c \in Centers : Scale(2, c)
       \/ \E m \in NewMeshes : UpdateMesh(m)
       \/ \E m \in NewMeshes : UpdateMeshPointsCall(m)

SpecObj == ObjInit /\ [][ObjNext]_vars

(***************************************************************************)
(* C1                                                                      *)
(***************************************************************************)
\* what transform(a) alone produces on a freshly constructed object
FreshTransform(k, a) ==
    UpdateMeshPoints(CtorMesh(k),
                     TransformPts(CtorMesh(k), CtorMesh(k), CtorCentroid(k), a))

\* C1 as stated: after transform(a1) followed by transform(a2), on any
\* SceneObject, the current points equal those of transform(a2) alone on a
\* freshly constructed object.
C1_Original ==
    (prevOp.op = "transform" /\ lastOp.op = "transform")
        => mesh = FreshTransform(ctor, lastOp.a)

\* C1 amended: the same, for every SceneObject whose current mesh has as
\* many points as its default mesh (transform is a silent no-op otherwise).
C1_TransformAbsolute ==
    (prevOp.op = "transform" /\ lastOp.op = "transform"
        /\ Len(mesh) = Len(default_mesh))
        => mesh = FreshTransform(ctor, lastOp.a)

\* two different transforms in a row, the first one rotating and scaling,
\* on an object with geometry
C1_Witness ==
    /\ prevOp.op = "transform" /\ lastOp.op = "transform"
    /\ prevOp.a # lastOp.a
    /\ ~IsNone(prevOp.a.R) /\ ~IsNone(prevOp.a.s) /\ ~IsNone(lastOp.a.t)
    /\ Len(mesh) = 3 /\ Len(default_mesh) = 3
    /\ mesh # default_mesh

(***************************************************************************)
(* SimulationGridContext: the robot_focus setter                           *)
(***************************************************************************)
\* a robot index of the largest data set, or no focus
FocusValues == {None} \cup {Some(k) : k \in 0..(MaxRobots - 1)}

\* a setter without the equality guard
FocusSetterNoGuard(focus, prev, value) ==
    [focus |-> value, prev |-> focus,
     seen |-> << [focus |-> value, prev |-> focus] >>]

\* robot_focus.setter: on a value different from the stored one, records the
\* old focus, stores the new one, then emits; `seen` is what a slot run by
\* that emit reads from the context (_robot_focus_changed)
FocusSetter(focus, prev, value) ==
    IF focus # value
    THEN [focus |-> value, prev |-> focus,
          seen |-> << [focus |-> value, prev |-> focus] >>]
    ELSE [focus |-> focus, prev |-> prev, seen |-> << >>]

(***************************************************************************)
(* Scene objects held by a canvas: colour, visibility, focus               *)
(***************************************************************************)
HighlightColor == "red"

\* a set_color that records the restore point on every call
ObjSetColorOverwrite(o, c) ==
    IF o.actor
    THEN [o EXCEPT !.default_color = Some(o.color), !.color = c]
    ELSE o

\* SceneObject.set_color
ObjSetColor(o, c) ==
    IF o.actor
    THEN [o EXCEPT !.default_color = IF IsNone(@) THEN Some(o.color) ELSE @,
                   !.color = c]
    ELSE o

\* SceneObject.reset_color
ObjResetColor(o) ==
    IF o.actor /\ ~IsNone(o.default_color)
    THEN [o EXCEPT !.color = Val(o.default_color)]
    ELSE o

\* SceneObject.set_focus
ObjSetFocus(o, focused) ==
    IF focused THEN ObjSetColor(o, HighlightColor) ELSE ObjResetColor(o)

\* Robot2D / Robot3D: the leaves of the bundle in the order add_child and
\* Axes.__init__ insert them
Leaves(d) ==
    IF d = 2 THEN <<"trajectory", "icon">>
    ELSE <<"icon", "trajectory", "x", "y", "z">>

\* the style colour a leaf is added to the surface with: the Axes' own
\* axis_colors, and the robot's colour for icon and trajectory
StyleColor(leaf) ==
    CASE leaf = "x" -> "red"
      [] leaf = "y" -> "green"
      [] leaf = "z" -> "blue"
      [] OTHER -> "base"

\* names are sequences of tokens; f"{bundle_name}.{child_name}", with the
\* nested Axes bundle registered as "<robot>.axes.<label>"
Digit(i) == <<"0", "1", "2", "3", "4", "5">>[i + 1]
RobotName(i) == <<"robot", "_", Digit(i)>>
ChildName(leaf) ==
    IF leaf \in {"x", "y", "z"} THEN <<"axes", ".", leaf>> ELSE <<leaf>>
FullName(i, leaf) == RobotName(i) \o <<".">> \o ChildName(leaf)

\* object identities: <<generation, robot index, leaf>>; a bundle is <<generation, robot index>>
ObjId(g, i, leaf) == <<g, i, leaf>>
BundleOf(id) == <<id[1], id[2]>>

\* SceneObjectBundle.set_focus: forwards to every child, nested bundles included
BundleSetFocus(os, b, focused) ==
    [id \in DOMAIN os |->
        IF BundleOf(id) = b THEN ObjSetFocus(os[id], focused) ELSE os[id]]

(***************************************************************************)
(* BaseVisualPlotter registry                                              *)
(***************************************************************************)
Keys(reg) == {reg[j].name : j \in 1..Len(reg)}
Lookup(reg, name) == (CHOOSE j \in 1..Len(reg) : reg[j].name = name)
Get(reg, name) == reg[Lookup(reg, name)].obj

\* self.scene_objects[name] = obj : a present key keeps its position
DictSet(reg, name, obj) ==
    IF name \in Keys(reg)
    THEN [reg EXCEPT ![Lookup(reg, name)].obj = obj]
    ELSE Append(reg, [name |-> name, obj |-> obj])

\* del self.scene_objects[name]
DictDel(reg, name) ==
    SelectSeq(reg, LAMBDA e : e.name # name)

\* add_scene_object_bundle(name, Robot2D/Robot3D): registers leaf n and the
\* leaves after it
RECURSIVE AddBundleFrom(_, _, _, _, _)
AddBundleFrom(reg, g, i, d, n) ==
    IF n > Len(Leaves(d)) THEN reg
    ELSE AddBundleFrom(DictSet(reg, FullName(i, Leaves(d)[n]),
                               ObjId(g, i, Leaves(d)[n])),
                       g, i, d, n + 1)

\* the state a leaf has once add_mesh returned its actor
Attached(leaf) ==
    [actor |-> TRUE, color |-> StyleColor(leaf),
     default_color |-> None, visible |-> TRUE]

BundleIds(g, i, d) == {ObjId(g, i, Leaves(d)[n]) : n \in 1..Len(Leaves(d))}

\* add_robot for robots i..R-1 in turn: add_scene_object_bundle, then append
\* to _robot_objs
RECURSIVE AddRobots(_, _, _, _, _)
AddRobots(st, g, i, R, d) ==
    IF i >= R THEN st
    ELSE AddRobots(
            [reg |-> AddBundleFrom(st.reg, g, i, d, 1),
             os |-> [id \in BundleIds(g, i, d) |-> Attached(id[3])] @@ st.os,
             surf |-> st.surf \cup BundleIds(g, i, d),
             robots |-> Append(st.robots, <<g, i>>)],
            g, i + 1, R, d)

\* init_artists of a concrete canvas: one robot bundle "robot_<i>" per robot
\* of the data
InitArtists(st, g, R, d) == AddRobots(st, g, 0, R, d)

\* clear_artists: removes entries while iterating the dictionary; the
\* iteration fails after the first removal
ClearArtists(reg, surf) ==
    IF Len(reg) = 0
    THEN [reg |-> << >>, surf |-> surf, err |-> None]
    ELSE [reg |-> DictDel(reg, reg[1].name),
          surf |-> surf \ {reg[1].obj},
          err |-> Some("RuntimeError")]

\* when_change_robot_focus
WhenChangeRobotFocus(os, robots, new, prv) ==
    IF ~IsNone(new) /\ Len(robots) > Val(new)
    THEN LET o1 == IF ~IsNone(prv) /\ Len(robots) > Val(prv)
                   THEN BundleSetFocus(os, robots[Val(prv) + 1], FALSE)
                   ELSE os
         IN BundleSetFocus(o1, robots[Val(new) + 1], TRUE)
    ELSE os

\* robots whose icon and trajectory are both registered
RobotsInScene ==
    {i \in 0..(MaxRobots - 1) : /\ FullName(i, "icon") \in Keys(scene_objects)
                          /\ FullName(i, "trajectory") \in Keys(scene_objects)}
RegColor(i, leaf) == objs[Get(scene_objects, FullName(i, leaf))].color
AllDefault ==
    \A j \in 1..Len(scene_objects) :
        objs[scene_objects[j].obj].color = StyleColor(scene_objects[j].obj[3])

\* robot counts of the data sets a canvas is reset with
RobotCounts == {0, 1, MaxRobots}

CanvasInit ==
    /\ ctor = [pts |-> EmptyMesh, size |-> 1]
    /\ mesh = EmptyMesh
    /\ default_mesh = EmptyMesh
    /\ default_centroid = Zero3
    /\ lastOp = Call("init", NoArgs)
    /\ prevOp = Call("init", NoArgs)
    /\ \E d \in {2, 3} : CanvasConstructed(d)
    /\ GridIdle
    /\ BundleIdle
    /\ WindowIdle

\* BaseCanvasPlotter.reset_scene with data of R robots
ResetScene(R) ==
    LET c == ClearArtists(scene_objects, surface)
        g == IF R > 0 THEN gen + 1 ELSE gen
        st == InitArtists([reg |-> c.reg, os |-> objs, surf |-> c.surf,
                           robots |-> robot_objs], g, R, dimension)
    IN /\ (IsNone(c.err) /\ R > 0) => gen < MaxGen
       /\ attitude' = attitude
       /\ canvasCall' = [NoCall EXCEPT !.op = "reset_scene", !.err = c.err,
                                       !.arg = Some(R),
                                       !.populated = Len(scene_objects) > 0]
       /\ IF IsNone(c.err)
          THEN /\ scene_objects' = st.reg
               /\ objs' = st.os
               /\ surface' = st.surf
               /\ robot_objs' = st.robots
               /\ gen' = g
          ELSE /\ scene_objects' = c.reg
               /\ surface' = c.surf
               /\ UNCHANGED <<objs, robot_objs, gen>>
       /\ UNCHANGED <<dimension, ctxVars, objVars, gridVars, bundleVars, winVars>>

\* context.robot_focus = value, with the canvas as subscriber 1
SetFocus(value) ==
    LET r == FocusSetter(robot_focus, prev_robot_focus, value)
    IN /\ robot_focus' = r.focus
       /\ prev_robot_focus' = r.prev
       /\ notified' = [s \in 1..NumSubscribers |-> r.seen]
       /\ objs' = IF Len(r.seen) = 0 THEN objs
                  ELSE WhenChangeRobotFocus(objs, robot_objs,
                                            r.seen[1].focus, r.seen[1].prev)
       /\ attitude' = attitude
       /\ canvasCall' = [NoCall EXCEPT !.op = "set_focus", !.arg = value,
                                       !.oldFocus = robot_focus,
                                       !.oldPrev = prev_robot_focus,
                                       !.populated = RobotsInScene # {},
                                       !.allDefault = AllDefault]
       /\ UNCHANGED <<dimension, scene_objects, surface, robot_objs, gen,
                       objVars, gridVars, bundleVars, winVars>>

CanvasNext ==
    \/ \E R \in RobotCounts : ResetScene(R)
    \/ \E v \in FocusValues : SetFocus(v)

SpecCanvas == CanvasInit /\ [][CanvasNext]_vars

(***************************************************************************)
(* Plotter2DCanvas and Plotter3DCanvas in a SimulationGrid                 *)
(*                                                                         *)
(* Plotter2DCanvas derives from _base_plotters.BaseVisualPlotter.          *)
(* Plotter3DCanvas derives from _base_py_plotter.BaseVisualPlotter, which  *)
(* stores {"mesh", "actor"} entries and is itself the render surface.      *)
(* A data set is [n, rot, pos, dim]: positions of shape (MaxT, n, dim)     *)
(* when the positions label is present (pos), rotations of shape           *)
(* (MaxT, n, 3, 3) when given (rot).  positions[t, i] is written <<t, i>>. *)
(***************************************************************************)
Tails == {None, Some(0), Some(1), Some(2)}
CanvasConfigs ==
    {[variant |-> "2d", tail |-> None]}
        \cup {[variant |-> "3d", tail |-> L] : L \in Tails}
DataSets ==
    [n : RobotCounts, rot : BOOLEAN, pos : {TRUE}, dim : {3}]
        \cup {[n |-> 1, rot |-> FALSE, pos |-> FALSE, dim |-> 3],
              [n |-> 1, rot |-> FALSE, pos |-> TRUE, dim |-> 2]}
TimeIndices == 0..MaxT

TrajName(i) == RobotName(i) \o <<".traj">>
\* ".traj" in name
HasTraj(name) == \E j \in 1..Len(name) : name[j] = ".traj"
\* name.endswith(".traj")
EndsWithTraj(name) == Len(name) > 0 /\ name[Len(name)] = ".traj"

\* a scene entry as add_scene_object leaves it
NewEnt(visible) ==
    [pose |-> None, rot |-> None, pts |-> << >>, lines |-> 0,
     visible |-> visible, prior |-> FALSE]

\* bookkeeping at the start of reset_scene: every entity present now
\* predates this reset
MarkPrior(reg) == [j \in 1..Len(reg) |-> [reg[j] EXCEPT !.ent.prior = TRUE]]

\* for name in robot_names: remove_scene_object(name);
\*                          remove_scene_object(f"{name}.traj")
RECURSIVE RemoveRobots(_, _)
RemoveRobots(reg, names) ==
    IF Len(names) = 0 THEN reg
    ELSE RemoveRobots(DictDel(DictDel(reg, Head(names)),
                              Head(names) \o <<".traj">>),
                      Tail(names))

NamesOf(reg) == [j \in 1..Len(reg) |-> reg[j].name]

\* new_points[-robot_tail:] : a Python slice from a start index that is
\* zero or negative
PySliceFromNeg(pts, k) ==
    IF k = 0 THEN pts
    ELSE IF k >= Len(pts) THEN pts
    ELSE SubSeq(pts, Len(pts) - k + 1, Len(pts))

\* positions_data[0:idx, counter, :]
Column(idx, counter) ==
    [t \in 1..(IF idx < MaxT THEN idx ELSE MaxT) |-> <<t - 1, counter>>]

\* the trajectory tail: keep the last robot_tail points when there are more
TailWindow(pts, tail) ==
    IF ~IsNone(tail) /\ Len(pts) > Val(tail)
    THEN PySliceFromNeg(pts, Val(tail))
    ELSE pts

Segments(npts) == IF npts > 1 THEN npts - 1 ELSE 0

(* ---- Plotter2DCanvas (on _base_plotters.BaseVisualPlotter) ---- *)

\* add_scene_object(name, mesh=mesh): a caller registering an entity directly
AddSceneObject(reg, name) ==
    IF name \in Keys(reg)
    THEN [reg |-> reg, err |-> Some("ValueError")]
    ELSE [reg |-> Append(reg, [name |-> name, ent |-> NewEnt(TRUE)]),
          err |-> None]

\* Plotter2DCanvas.reset_scene: add_robots passes the robot mesh as the
\* positional parameter obj, and add_scene_object reads obj.mesh
Reset2D(reg, data) ==
    LET robot_names == SelectSeq(NamesOf(reg), LAMBDA nm : ~HasTraj(nm))
        reg1 == RemoveRobots(MarkPrior(reg), robot_names)
    IN IF ~data.pos THEN [reg |-> reg1, err |-> Some("ValueError")]
       ELSE IF data.n > 0 THEN [reg |-> reg1, err |-> Some("AttributeError")]
       ELSE [reg |-> reg1, err |-> None]

\* Plotter2DCanvas.update_all_scene_objects: entries are SceneObjects, which
\* obj["mesh"] cannot subscript; robot_grid_mesh is None and self.render
\* does not exist
Update2D(reg, tail, data, idx) ==
    LET n_robots == Len(SelectSeq(NamesOf(reg), LAMBDA nm : ~HasTraj(nm)))
        e == IF ~data.pos THEN "ValueError"
             ELSE IF idx >= MaxT THEN "IndexError"
             ELSE IF data.n # n_robots THEN "ValueError"
             ELSE IF Len(reg) = 0 THEN "AttributeError"
             ELSE IF HasTraj(reg[1].name) /\ data.n = 0 THEN "IndexError"
             ELSE "TypeError"
    IN [reg |-> reg, err |-> Some(e), painted |-> << >>]

(* ---- Plotter3DCanvas (on _base_py_plotter.BaseVisualPlotter) ---- *)

\* the base's add_scene_object(name, mesh, visible=..., **style) for a name
\* not yet registered: appends a {"mesh", "actor"} entry
BaseAdd3D(reg, name, visible) ==
    Append(reg, [name |-> name, ent |-> NewEnt(visible)])

\* the base's remove_scene_object(name): nothing for an unknown name
BaseRemove3D(reg, name) == SelectSeq(reg, LAMBDA e : e.name # name)

\* the base's render(): paints the scene as it is
BaseRender3D(reg) == <<reg>>

RECURSIVE RemoveRobots3D(_, _)
RemoveRobots3D(reg, names) ==
    IF Len(names) = 0 THEN reg
    ELSE RemoveRobots3D(BaseRemove3D(BaseRemove3D(reg, Head(names)),
                                     Head(names) \o <<".traj">>),
                        Tail(names))

\* add_multiple_robots / add_robots: robot_<i> then robot_<i>.traj, both
\* added invisible
RECURSIVE Add3DRobots(_, _, _)
Add3DRobots(reg, i, n) ==
    IF i >= n THEN reg
    ELSE Add3DRobots(
            BaseAdd3D(BaseAdd3D(reg, RobotName(i), FALSE), TrajName(i), FALSE),
            i + 1, n)

\* Plotter3DCanvas.reset_scene
Reset3D(reg, data) ==
    LET robot_names == SelectSeq(NamesOf(reg), LAMBDA nm : ~EndsWithTraj(nm))
        reg1 == RemoveRobots3D(MarkPrior(reg), robot_names)
    IN IF ~data.pos THEN [reg |-> reg1, err |-> Some("ValueError")]
       ELSE [reg |-> Add3DRobots(reg1, 0, data.n), err |-> None]

\* the loop of update_all_scene_objects with a counter that never advances
RECURSIVE Loop3DFixedColumn(_, _, _, _, _, _)
Loop3DFixedColumn(reg, j, counter, tail, data, idx) ==
    IF j > Len(reg) THEN [reg |-> reg, err |-> None]
    ELSE IF counter >= data.n THEN [reg |-> reg, err |-> Some("IndexError")]
    ELSE IF EndsWithTraj(reg[j].name)
    THEN LET pts == TailWindow(Column(idx, counter), tail)
         IN Loop3DFixedColumn(
                [reg EXCEPT ![j].ent.pts = pts,
                            ![j].ent.lines = Segments(Len(pts)),
                            ![j].ent.visible = TRUE],
                j + 1, counter, tail, data, idx)
    ELSE IF idx >= MaxT THEN [reg |-> reg, err |-> Some("IndexError")]
    ELSE Loop3DFixedColumn(
                [reg EXCEPT ![j].ent.pose = Some(<<idx, counter>>),
                            ![j].ent.rot = IF data.rot
                                           THEN Some(<<idx, counter>>)
                                           ELSE None,
                            ![j].ent.visible = TRUE],
                j + 1, counter, tail, data, idx)

\* the loop over self.scene_objects.items(), from entry j on
RECURSIVE Loop3D(_, _, _, _, _, _)
Loop3D(reg, j, counter, tail, data, idx) ==
    IF j > Len(reg) THEN [reg |-> reg, err |-> None]
    ELSE IF counter >= data.n THEN [reg |-> reg, err |-> Some("IndexError")]
    ELSE IF EndsWithTraj(reg[j].name)
    THEN LET pts == TailWindow(Column(idx, counter), tail)
         IN Loop3D([reg EXCEPT ![j].ent.pts = pts,
                               ![j].ent.lines = Segments(Len(pts)),
                               ![j].ent.visible = TRUE],
                   j + 1, counter + 1, tail, data, idx)
    ELSE IF idx >= MaxT THEN [reg |-> reg, err |-> Some("IndexError")]
    ELSE Loop3D([reg EXCEPT ![j].ent.pose = Some(<<idx, counter>>),
                            ![j].ent.rot = IF data.rot
                                           THEN Some(<<idx, counter>>)
                                           ELSE None,
                            ![j].ent.visible = TRUE],
                j + 1, counter, tail, data, idx)

\* an update that moves the entities before it compares the robot counts
Update3DUnchecked(reg, tail, data, idx) ==
    LET n_scene_robots ==
            Len(SelectSeq(NamesOf(reg), LAMBDA nm : ~EndsWithTraj(nm)))
        r == Loop3D(reg, 1, 0, tail, data, idx)
    IN IF ~data.pos \/ data.dim # 3
       THEN [reg |-> reg, err |-> Some("ValueError"), painted |-> << >>]
       ELSE IF n_scene_robots # data.n
       THEN [reg |-> r.reg, err |-> Some("ValueError"), painted |-> << >>]
       ELSE IF IsNone(r.err)
       THEN [reg |-> r.reg, err |-> None, painted |-> BaseRender3D(r.reg)]
       ELSE [reg |-> r.reg, err |-> r.err, painted |-> << >>]

\* an update that rebuilds the registry from the data
Update3DRebuild(reg, tail, data, idx) ==
    LET r == Loop3D(Add3DRobots(<< >>, 0, data.n), 1, 0, tail, data, idx)
    IN IF ~data.pos \/ data.dim # 3
       THEN [reg |-> reg, err |-> Some("ValueError"), painted |-> << >>]
       ELSE IF IsNone(r.err)
       THEN [reg |-> r.reg, err |-> None, painted |-> BaseRender3D(r.reg)]
       ELSE [reg |-> r.reg, err |-> r.err, painted |-> << >>]

\* Plotter3DCanvas.update_all_scene_objects: label and shape checks, the
\* robot-count check, the loop, one render
Update3D(reg, tail, data, idx) ==
    LET n_scene_robots ==
            Len(SelectSeq(NamesOf(reg), LAMBDA nm : ~EndsWithTraj(nm)))
        r == Loop3D(reg, 1, 0, tail, data, idx)
    IN IF ~data.pos \/ data.dim # 3
       THEN [reg |-> reg, err |-> Some("ValueError"), painted |-> << >>]
       ELSE IF n_scene_robots # data.n
       THEN [reg |-> reg, err |-> Some("ValueError"), painted |-> << >>]
       ELSE IF IsNone(r.err)
       THEN [reg |-> r.reg, err |-> None, painted |-> BaseRender3D(r.reg)]
       ELSE [reg |-> r.reg, err |-> r.err, painted |-> << >>]

(* ---- the handlers of one canvas, and the grid's fan-out ---- *)

ResetSceneOf(k, reg, data) ==
    IF k.variant = "2d" THEN Reset2D(reg, data) ELSE Reset3D(reg, data)

UpdateAllSceneObjects(k, reg, data, idx) ==
    IF k.variant = "2d" THEN Update2D(reg, k.tail, data, idx)
    ELSE Update3D(reg, k.tail, data, idx)

ResetRec(r, data) ==
    [NoCanvasCall EXCEPT !.op = "reset", !.err = r.err, !.n = data.n]
\* of a call that raised, the record keeps the robot count of the data and
\* whether the time index was in range
UpdateRec(r, data, idx) ==
    IF IsNone(r.err)
    THEN [op |-> "update", err |-> r.err, n |-> data.n, rot |-> data.rot,
          idx |-> idx, painted |-> r.painted]
    ELSE [op |-> "update", err |-> r.err, n |-> data.n, rot |-> FALSE,
          idx |-> IF idx < MaxT THEN 0 ELSE MaxT, painted |-> r.painted]

\* a grid update that goes on to the next canvas after one has raised
RECURSIVE UpdateScenesFrom(_, _, _, _)
RECURSIVE UpdateScenesKeepGoing(_, _, _, _)
UpdateScenesKeepGoing(st, c, data, idx) ==
    IF c \notin Cells THEN st
    ELSE LET r == UpdateAllSceneObjects(cfg[c], st.scene[c], data, idx)
             st1 == [scene |-> [st.scene EXCEPT ![c] = r.reg],
                     calls |-> [st.calls EXCEPT ![c] = UpdateRec(r, data, idx)],
                     invoked |-> [st.invoked EXCEPT ![c] = @ + 1],
                     err |-> IF IsNone(st.err) THEN r.err ELSE st.err]
         IN UpdateScenesKeepGoing(st1, c + 1, data, idx)

\* SimulationGrid.update_scenes from cell c on: an exception ends the loop
UpdateScenesFrom(st, c, data, idx) ==
    IF c \notin Cells THEN st
    ELSE LET r == UpdateAllSceneObjects(cfg[c], st.scene[c], data, idx)
             st1 == [scene |-> [st.scene EXCEPT ![c] = r.reg],
                     calls |-> [st.calls EXCEPT ![c] = UpdateRec(r, data, idx)],
                     invoked |-> [st.invoked EXCEPT ![c] = @ + 1],
                     err |-> r.err]
         IN IF IsNone(r.err) THEN UpdateScenesFrom(st1, c + 1, data, idx)
            ELSE st1

\* SimulationGrid.reset_scenes from cell c on
RECURSIVE ResetScenesFrom(_, _, _)
ResetScenesFrom(st, c, data) ==
    IF c \notin Cells THEN st
    ELSE LET r == ResetSceneOf(cfg[c], st.scene[c], data)
             st1 == [scene |-> [st.scene EXCEPT ![c] = r.reg],
                     calls |-> [st.calls EXCEPT ![c] = ResetRec(r, data)],
                     invoked |-> [st.invoked EXCEPT ![c] = @ + 1],
                     err |-> r.err]
         IN IF IsNone(r.err) THEN ResetScenesFrom(st1, c + 1, data)
            ELSE st1

\* lastCall and gridCall describe the call in progress only
GridStart == [scene |-> scene, calls |-> [c \in Cells |-> NoCanvasCall],
              invoked |-> [c \in Cells |-> 0], err |-> None]

\* names a caller registers directly on a 2D canvas
ApiNames == {RobotName(0), TrajName(0)}

GridInit ==
    /\ ctor = [pts |-> EmptyMesh, size |-> 1]
    /\ mesh = EmptyMesh
    /\ default_mesh = EmptyMesh
    /\ default_centroid = Zero3
    /\ lastOp = Call("init", NoArgs)
    /\ prevOp = Call("init", NoArgs)
    /\ CanvasIdle
    /\ BundleIdle
    /\ WindowIdle
    /\ \E k \in [Cells -> CanvasConfigs] : GridConstructed(k)

\* grid.reset_scenes(sim_data, sim_settings)
GridResetScenes(data) ==
    LET st == ResetScenesFrom(GridStart, 1, data)
    IN /\ scene' = st.scene
       /\ lastCall' = st.calls
       /\ gridCall' = [op |-> "reset_scenes", err |-> st.err,
                       invoked |-> st.invoked]
       /\ UNCHANGED <<cfg, objVars, ctxVars, canvasVars, bundleVars, winVars>>

\* grid.update_scenes(sim_data, idx)
GridUpdateScenes(data, idx) ==
    LET st == UpdateScenesFrom(GridStart, 1, data, idx)
    IN /\ scene' = st.scene
       /\ lastCall' = st.calls
       /\ gridCall' = [op |-> "update_scenes", err |-> st.err,
                       invoked |-> st.invoked]
       /\ UNCHANGED <<cfg, objVars, ctxVars, canvasVars, bundleVars, winVars>>

\* plotter.add_scene_object(name, mesh=...) on a Plotter2DCanvas
CanvasAddObject(c, name) ==
    LET r == AddSceneObject(scene[c], name)
    IN /\ cfg[c].variant = "2d"
       /\ scene' = [scene EXCEPT ![c] = r.reg]
       /\ lastCall' = [GridStart.calls EXCEPT ![c] =
                          [NoCanvasCall EXCEPT !.op = "add", !.err = r.err]]
       /\ gridCall' = [op |-> "add_scene_object", err |-> r.err,
                       invoked |-> GridStart.invoked]
       /\ UNCHANGED <<cfg, objVars, ctxVars, canvasVars, bundleVars, winVars>>

GridNext ==
    \/ \E d \in DataSets : GridResetScenes(d)
    \/ \E d \in DataSets : \E idx \in TimeIndices : GridUpdateScenes(d, idx)
    \/ \E c \in Cells : \E nm \in ApiNames : CanvasAddObject(c, nm)

SpecGrid == GridInit /\ [][GridNext]_vars

(***************************************************************************)
(* C2                                                                      *)
(***************************************************************************)
\* the registry init_artists builds on an empty canvas for R robots
FreshRegistry(g, R, d) ==
    InitArtists([reg |-> << >>, os |-> << >>, surf |-> {}, robots |-> << >>],
                g, R, d).reg

\* C2: reset_scene on an already populated canvas completes without error,
\* leaves the registry holding exactly the entities init_artists built for
\* the new data, and leaves only their actors on the render surface.
C2_ResetRepopulates ==
    (canvasCall.op = "reset_scene" /\ canvasCall.populated)
        => /\ IsNone(canvasCall.err)
           /\ scene_objects = FreshRegistry(gen, Val(canvasCall.arg), dimension)
           /\ surface = {scene_objects[j].obj : j \in 1..Len(scene_objects)}

(***************************************************************************)
(* C3                                                                      *)
(***************************************************************************)
EntOf(reg, name) == reg[Lookup(reg, name)].ent
RobotNames(n) == {RobotName(i) : i \in 0..(n - 1)}
TrajNames(n) == {TrajName(i) : i \in 0..(n - 1)}

\* C3: Plotter2DCanvas.reset_scene with a positions array of robot
\* dimension R leaves the registry with exactly the R icon entries
\* robot_0..robot_{R-1} and the R trajectory entries robot_i.traj, none of
\* them an entity of the previous population.
C3_Reset2DPopulates ==
    \A c \in Cells :
        (/\ cfg[c].variant = "2d"
         /\ lastCall[c].op = "reset"
         /\ lastCall[c].err # Some("ValueError"))
            => /\ Keys(scene[c]) = RobotNames(lastCall[c].n)
                                       \cup TrajNames(lastCall[c].n)
               /\ Len(scene[c]) = 2 * lastCall[c].n
               /\ \A j \in 1..Len(scene[c]) : ~scene[c][j].ent.prior

(***************************************************************************)
(* C4                                                                      *)
(***************************************************************************)
SameBindings(a, b) ==
    /\ NamesOf(a) = NamesOf(b)
    /\ \A j \in 1..Len(a) : a[j].ent.prior = b[j].ent.prior

\* C4: a step in which update_all_scene_objects ran on a canvas, whether it
\* returned or raised, leaves that canvas's registry with the same names
\* bound to the same entities.
C4_KeysUnchanged ==
    [][\A c \in Cells :
          lastCall'[c].op = "update" => SameBindings(scene[c], scene'[c])]_vars

\* one grid update in which a populated canvas was updated and a populated
\* canvas raised
C4_Witness ==
    \E c1, c2 \in Cells :
        /\ lastCall[c1].op = "update" /\ IsNone(lastCall[c1].err)
        /\ Len(scene[c1]) >= 2
        /\ lastCall[c2].op = "update" /\ ~IsNone(lastCall[c2].err)
        /\ Len(scene[c2]) >= 1

(***************************************************************************)
(* C5                                                                      *)
(***************************************************************************)
\* the robot count a canvas reads off its registry
RobotCount(k, reg) ==
    IF k.variant = "2d"
    THEN Len(SelectSeq(NamesOf(reg), LAMBDA nm : ~HasTraj(nm)))
    ELSE Len(SelectSeq(NamesOf(reg), LAMBDA nm : ~EndsWithTraj(nm)))

\* C5 as stated: an update whose data has another robot count than the
\* canvas raises a data-shape error (ValueError), modifies no entity and
\* paints nothing.
C5_Original ==
    [][\A c \in Cells :
          (/\ lastCall'[c].op = "update"
           /\ lastCall'[c].n # RobotCount(cfg[c], scene[c]))
              => /\ lastCall'[c].err = Some("ValueError")
                 /\ scene'[c] = scene[c]
                 /\ lastCall'[c].painted = << >>]_vars

\* C5 amended: the same, for a time index inside the data's time range.
C5_MismatchAllOrNothing ==
    [][\A c \in Cells :
          (/\ lastCall'[c].op = "update"
           /\ lastCall'[c].idx < MaxT
           /\ lastCall'[c].n # RobotCount(cfg[c], scene[c]))
              => /\ lastCall'[c].err = Some("ValueError")
                 /\ scene'[c] = scene[c]
                 /\ lastCall'[c].painted = << >>]_vars

\* a canvas whose robots had been posed refused data of another robot count
C5_Witness ==
    \E c \in Cells :
        /\ lastCall[c].op = "update"
        /\ lastCall[c].err = Some("ValueError")
        /\ lastCall[c].idx < MaxT
        /\ lastCall[c].n # RobotCount(cfg[c], scene[c])
        /\ RobotName(0) \in Keys(scene[c])
        /\ ~IsNone(EntOf(scene[c], RobotName(0)).pose)

(***************************************************************************)
(* C6                                                                      *)
(***************************************************************************)
Max2(a, b) == IF a >= b THEN a ELSE b
Min2(a, b) == IF a <= b THEN a ELSE b

\* positions[max(0, idx-L):idx, i], all of positions[0:idx, i] for L None
ExpectedWindow(idx, tail, i) ==
    LET lo == IF IsNone(tail) THEN 0 ELSE Max2(0, idx - Val(tail))
    IN [t \in 1..(idx - lo) |-> <<lo + t - 1, i>>]

\* C6: after a successful update at idx on a canvas with tail length L,
\* trajectory i holds positions[max(0, idx-L):idx, i] in time order (all of
\* positions[0:idx, i] for L None), joined by one segment less than points.
C6_TrajectoryWindow ==
    \A c \in Cells :
        (lastCall[c].op = "update" /\ IsNone(lastCall[c].err))
            => \A i \in 0..(lastCall[c].n - 1) :
                  LET e == EntOf(scene[c], TrajName(i))
                      w == ExpectedWindow(lastCall[c].idx, cfg[c].tail, i)
                  IN /\ e.pts = w
                     /\ e.lines = Max2(0, Len(w) - 1)

(***************************************************************************)
(* C7                                                                      *)
(***************************************************************************)
\* C7: after a successful update at idx on a canvas reset with R robots,
\* the icon of every robot i is posed at positions[idx, i], with rotation
\* entry i when rotations are given, and is visible, and trajectory i is
\* built from column i only.
C7_RobotRowMapping ==
    \A c \in Cells :
        (lastCall[c].op = "update" /\ IsNone(lastCall[c].err))
            => \A i \in 0..(lastCall[c].n - 1) :
                  LET icon == EntOf(scene[c], RobotName(i))
                      traj == EntOf(scene[c], TrajName(i))
                  IN /\ icon.pose = Some(<<lastCall[c].idx, i>>)
                     /\ icon.rot = IF lastCall[c].rot
                                   THEN Some(<<lastCall[c].idx, i>>) ELSE None
                     /\ icon.visible
                     /\ \A j \in 1..Len(traj.pts) : traj.pts[j][2] = i

\* two robots with rotations, updated at a time index with two past rows
C7_Witness ==
    \E c \in Cells :
        /\ lastCall[c].op = "update" /\ IsNone(lastCall[c].err)
        /\ lastCall[c].n >= 2 /\ lastCall[c].rot /\ lastCall[c].idx >= 2
        /\ Len(EntOf(scene[c], TrajName(1)).pts) >= 2

(***************************************************************************)
(* C8                                                                      *)
(***************************************************************************)
\* every successful update painted once, the scene as the update left it
OnePaint ==
    \A c \in Cells :
        (lastCall[c].op = "update" /\ IsNone(lastCall[c].err))
            => lastCall[c].painted = <<scene[c]>>

\* C8 as stated: every successful update issues exactly one render, after
\* all mutations, and one grid update_scenes invokes the update exactly once
\* on every canvas of the grid.
C8_Original ==
    /\ OnePaint
    /\ gridCall.op = "update_scenes" =>
           \A c \in Cells : gridCall.invoked[c] = 1

\* C8 amended: every successful update issues exactly one render, after all
\* mutations; an update_scenes that returns has invoked the update exactly
\* once on every canvas; one that raises has invoked it once on the canvases
\* up to the one that raised and on none after it.
C8_OnePaintPerFrame ==
    /\ OnePaint
    /\ gridCall.op = "update_scenes" =>
           IF IsNone(gridCall.err)
           THEN \A c \in Cells :
                    /\ gridCall.invoked[c] = 1
                    /\ lastCall[c].op = "update" /\ IsNone(lastCall[c].err)
           ELSE \E k \in Cells :
                    /\ lastCall[k].op = "update" /\ ~IsNone(lastCall[k].err)
                    /\ \A c \in Cells :
                          gridCall.invoked[c] = IF c <= k THEN 1 ELSE 0

\* a grid update that returned, every canvas showing two posed robots
C8_Witness ==
    /\ gridCall.op = "update_scenes" /\ IsNone(gridCall.err)
    /\ \A c \in Cells :
          /\ Len(scene[c]) = 4
          /\ Len(lastCall[c].painted) = 1
          /\ ~IsNone(EntOf(scene[c], RobotName(1)).pose)

C10_FocusHighlights ==
    (/\ canvasCall.op = "set_focus"
     /\ IsNone(canvasCall.oldFocus) /\ ~IsNone(canvasCall.arg)
     /\ canvasCall.populated /\ canvasCall.allDefault
     /\ RobotsInScene = 0..(Cardinality(RobotsInScene) - 1)
     /\ Val(canvasCall.arg) \in RobotsInScene)
        => \A i \in RobotsInScene : \A leaf \in {"icon", "trajectory"} :
               RegColor(i, leaf) = IF i = Val(canvasCall.arg)
                                   THEN HighlightColor ELSE StyleColor(leaf)

(***************************************************************************)
(* C11                                                                     *)
(***************************************************************************)
\* robots of the scene whose registered icon or trajectory is highlighted
Highlighted ==
    {i \in RobotsInScene :
        \E leaf \in {"icon", "trajectory"} : RegColor(i, leaf) = HighlightColor}

\* the highlighted set a focus value stands for
FocusedSet(f) ==
    IF ~IsNone(f) /\ Val(f) < Len(robot_objs) THEN {Val(f)} ELSE {}

\* the canvas holds exactly the robots of its first population
PopulatedOnce ==
    /\ Len(robot_objs) > 0
    /\ robot_objs = [i \in 1..Len(robot_objs) |-> <<1, i - 1>>]
    /\ scene_objects = FreshRegistry(1, Len(robot_objs), dimension)

\* C11: on a canvas holding the robots of one population, whose highlighted
\* set is the one the current focus stands for, a focus change (to a robot
\* index, to an index out of range, or to none) leaves the highlighted set
\* equal to {new focus} when the new focus is in range and empty otherwise:
\* the previous robot is restored whether or not the new focus is in range.
C11_FocusStepsIndependent ==
    [][(/\ PopulatedOnce
        /\ Highlighted = FocusedSet(robot_focus)
        /\ canvasCall'.op = "set_focus"
        /\ UNCHANGED <<scene_objects, robot_objs>>)
            => Highlighted' = FocusedSet(robot_focus')]_vars

(***************************************************************************)
(* C12                                                                     *)
(***************************************************************************)
\* C12: every registered axis of a robot's triad keeps its fixed colour
\* (x red, y green, z blue) before, during and after the robot's focus.
C12_AxesKeepColor ==
    \A j \in 1..Len(scene_objects) :
        LET id == scene_objects[j].obj
        IN id[3] \in {"x", "y", "z"} => objs[id].color = StyleColor(id[3])

(***************************************************************************)
(* BaseVisualPlotter registry API, called directly                         *)
(*                                                                         *)
(* One plotter, one stand-alone SceneObject and two bundles of two         *)
(* SceneObjects each.  An object's actor field is None until add_mesh      *)
(* first returns an actor for it; actor n of object id is the handle       *)
(* <<id, n>>, and the surface is the set of handles add_mesh returned and  *)
(* remove_actor has not removed.                                           *)
(***************************************************************************)
\* actors add_mesh creates for one object
MaxActors == 2

RegNames == {<<"robot">>, <<"robot", "_", "0">>}
RegBundles == {1, 2}
RegChildren == <<"trajectory", "icon">>
PlainObj == <<"obj", 1, "mesh">>
RegChildId(b, n) == <<"bundle", b, RegChildren[n]>>
RegIds == {PlainObj} \cup {RegChildId(b, n) : b \in RegBundles, n \in 1..Len(RegChildren)}

\* k.startswith(p)
StartsWith(k, p) == Len(k) >= Len(p) /\ SubSeq(k, 1, Len(p)) = p

\* the actor handle an object's actor field refers to
ActorOf(os, id) == <<id, Val(os[id].actor)>>
NextActor(os, id) == IF IsNone(os[id].actor) THEN 1 ELSE Val(os[id].actor) + 1

\* actor = self.pvqt.add_mesh(obj.mesh, **style); obj.actor = actor;
\* self.scene_objects[name] = obj
AttachObj(st, name, id) ==
    [reg |-> DictSet(st.reg, name, id),
     os |-> [st.os EXCEPT ![id].actor = Some(NextActor(st.os, id))],
     surf |-> st.surf \cup {<<id, NextActor(st.os, id)>>},
     err |-> None]

\* add_scene_object(name, obj=obj)
AddSceneObjectTo(st, name, id) ==
    IF name \in Keys(st.reg)
    THEN [st EXCEPT !.err = Some("ValueError")]
    ELSE AttachObj(st, name, id)

\* add_scene_object_bundle(bundle_name, bundle): child n and the children
\* after it, each under f"{bundle_name}.{child_name}"
RECURSIVE AddBundleTo(_, _, _, _)
AddBundleTo(st, name, b, n) ==
    IF n > Len(RegChildren) THEN st
    ELSE AddBundleTo(AttachObj(st, name \o <<".", RegChildren[n]>>,
                               RegChildId(b, n)),
                     name, b, n + 1)

\* remove_scene_object(name)
RemoveObjFrom(st, name) ==
    IF name \in Keys(st.reg)
    THEN [st EXCEPT !.reg = DictDel(st.reg, name),
                    !.surf = st.surf \ {ActorOf(st.os, Get(st.reg, name))}]
    ELSE st

RECURSIVE RemoveKeys(_, _)
RemoveKeys(st, keys) ==
    IF Len(keys) = 0 THEN st
    ELSE RemoveKeys(RemoveObjFrom(st, Head(keys)), Tail(keys))

\* remove_scene_object_bundle(bundle_name)
RemoveBundleFrom(st, name) ==
    RemoveKeys(st, SelectSeq([j \in 1..Len(st.reg) |-> st.reg[j].name],
                             LAMBDA k : StartsWith(k, name \o <<"_">>)))

RegState == [reg |-> scene_objects, os |-> objs, surf |-> surface, err |-> None]

RegInit ==
    /\ ctor = [pts |-> EmptyMesh, size |-> 1]
    /\ mesh = EmptyMesh
    /\ default_mesh = EmptyMesh
    /\ default_centroid = Zero3
    /\ lastOp = Call("init", NoArgs)
    /\ prevOp = Call("init", NoArgs)
    /\ robot_focus = None
    /\ prev_robot_focus = None
    /\ notified = [s \in 1..NumSubscribers |-> << >>]
    /\ dimension = 2
    /\ scene_objects = << >>
    /\ objs = [id \in RegIds |-> [actor |-> None]]
    /\ surface = {}
    /\ robot_objs = << >>
    /\ gen = 0
    /\ canvasCall = NoCall
    /\ attitude = AttitudeNew
    /\ GridIdle
    /\ BundleIdle
    /\ WindowIdle

\* the state a registry call leaves, with the record of the call
RegDone(op, name, target, st) ==
    /\ scene_objects' = st.reg
    /\ objs' = st.os
    /\ surface' = st.surf
    /\ attitude' = attitude
    /\ canvasCall' = [NoCall EXCEPT !.op = op, !.err = st.err,
                                    !.arg = Some([name |-> name,
                                                  target |-> target])]
    /\ UNCHANGED <<dimension, robot_objs, gen, ctxVars, objVars, gridVars,
                    bundleVars, winVars>>

RegAddSceneObject(name, id) ==
    /\ NextActor(objs, id) <= MaxActors
    /\ RegDone("add_scene_object", name, {id},
               AddSceneObjectTo(RegState, name, id))

RegAddSceneObjectBundle(name, b) ==
    /\ \A n \in 1..Len(RegChildren) :
           NextActor(objs, RegChildId(b, n)) <= MaxActors
    /\ RegDone("add_scene_object_bundle", name,
               {RegChildId(b, n) : n \in 1..Len(RegChildren)},
               AddBundleTo(RegState, name, b, 1))

RegRemoveSceneObject(name) ==
    /\ name \in RegNames
    /\ RegDone("remove_scene_object", name, {}, RemoveObjFrom(RegState, name))

RegRemoveSceneObjectBundle(name) ==
    /\ name \in RegNames
    /\ RegDone("remove_scene_object_bundle", name, {},
               RemoveBundleFrom(RegState, name))

RegNext ==
    \/ \E name \in RegNames : RegAddSceneObject(name, PlainObj)
    \/ \E name \in RegNames : \E b \in RegBundles :
           RegAddSceneObjectBundle(name, b)
    \/ \E name \in RegNames : RegRemoveSceneObject(name)
    \/ \E name \in RegNames : RegRemoveSceneObjectBundle(name)

SpecRegistry == RegInit /\ [][RegNext]_vars

(***************************************************************************)
(* C14                                                                     *)
(***************************************************************************)
\* the keys an add call binds
AddedKeys(c) ==
    IF c.op = "add_scene_object" THEN {Val(c.arg).name}
    ELSE {Val(c.arg).name \o <<".", RegChildren[n]>> : n \in 1..Len(RegChildren)}

\* C14: an add (add_scene_object or add_scene_object_bundle) under a name
\* that is already a key of the registry fails with the duplicate-name
\* error and leaves the registry and the surface actors unchanged.
C14_NoSilentRebind ==
    [][(/\ canvasCall'.op \in {"add_scene_object", "add_scene_object_bundle"}
        /\ AddedKeys(canvasCall') \cap Keys(scene_objects) # {})
            => /\ canvasCall'.err = Some("ValueError")
               /\ scene_objects' = scene_objects
               /\ surface' = surface]_vars

(***************************************************************************)
(* C15                                                                     *)
(***************************************************************************)
\* key is "<name>.<child>" for some child path
DottedUnder(key, name) == StartsWith(key, name \o <<".">>)

\* C15: remove_scene_object_bundle(name) on a registry holding the entries
\* add_scene_object_bundle(name, bundle) made leaves no key "name.<child>"
\* in the registry and none of those entries' actors on the surface.
C15_BundleTornDown ==
    [][canvasCall'.op = "remove_scene_object_bundle"
        => \A j \in 1..Len(scene_objects) :
              DottedUnder(scene_objects[j].name, Val(canvasCall'.arg).name)
                 => /\ scene_objects[j].name \notin Keys(scene_objects')
                    /\ ActorOf(objs, scene_objects[j].obj) \notin surface']_vars

(***************************************************************************)
(* C16                                                                     *)
(***************************************************************************)
\* C16: remove_scene_object_bundle(name) leaves every entry whose key does
\* not have name as its dotted-path prefix bound to the same object, with
\* that object's actor still on the surface if it was there.
C16_OthersKept ==
    [][canvasCall'.op = "remove_scene_object_bundle"
        => \A j \in 1..Len(scene_objects) :
              ~DottedUnder(scene_objects[j].name, Val(canvasCall'.arg).name)
                 => /\ scene_objects[j].name \in Keys(scene_objects')
                    /\ Get(scene_objects', scene_objects[j].name)
                           = scene_objects[j].obj
                    /\ (ActorOf(objs, scene_objects[j].obj) \in surface
                           => ActorOf(objs, scene_objects[j].obj) \in surface')]_vars

(***************************************************************************)
(* C17                                                                     *)
(***************************************************************************)
\* C17: an add that would attach an object whose actor field is already set
\* fails with the already-attached error and leaves that object's actor
\* handle and the registry unchanged.
C17_NoReattach ==
    [][(/\ canvasCall'.op \in {"add_scene_object", "add_scene_object_bundle"}
        /\ AddedKeys(canvasCall') \cap Keys(scene_objects) = {}
        /\ \E id \in Val(canvasCall'.arg).target : ~IsNone(objs[id].actor))
            => /\ canvasCall'.err = Some("AlreadyAttachedError")
               /\ scene_objects' = scene_objects
               /\ \A id \in Val(canvasCall'.arg).target :
                      objs'[id].actor = objs[id].actor]_vars

(***************************************************************************)
(* One SceneObjectBundle                                                   *)
(*                                                                         *)
(* self.children is an insertion-ordered sequence of records               *)
(* [name, set_color, kind, obj, kids]: a child is a SceneObject (kind      *)
(* "obj", state in obj) or a nested SceneObjectBundle (kind "bundle",      *)
(* its own children in kids).  Every child is an object of its own.        *)
(***************************************************************************)
\* children one bundle is given
MaxChildren == 2

ChildNames == {<<"child", Digit(k)>> : k \in 0..(MaxChildren - 1)}
SetColors == {"green"}

\* SceneObject(mesh): no actor yet
Detached ==
    [actor |-> FALSE, color |-> "base", default_color |-> None, visible |-> TRUE]

\* the mesh a child SceneObject is constructed with
MeshOf(name) == IF name = <<"x">> THEN TriMesh ELSE SegMesh

LeafChild(name, flag) ==
    [name |-> name, set_color |-> flag, kind |-> "obj", obj |-> Detached,
     kids |-> << >>, pts |-> MeshOf(name)]

\* a nested bundle of two SceneObjects, the first added with the default
\* set_color=True, the second with set_color=False
NestedChild(name, flag) ==
    [name |-> name, set_color |-> flag, kind |-> "bundle", obj |-> Detached,
     kids |-> <<LeafChild(<<"x">>, TRUE), LeafChild(<<"y">>, FALSE)>>,
     pts |-> << >>]

\* an add_child that rebinds a name already present
AddChildOverwrite(ch, child) ==
    IF child.name \in {ch[j].name : j \in 1..Len(ch)}
    THEN [children |-> [j \in 1..Len(ch) |->
                          IF ch[j].name = child.name THEN child ELSE ch[j]],
          err |-> None]
    ELSE [children |-> Append(ch, child), err |-> None]

\* get_child(name)
GetChild(ch, name) ==
    IF name \in {ch[j].name : j \in 1..Len(ch)}
    THEN [err |-> None,
          child |-> Some(ch[CHOOSE j \in 1..Len(ch) : ch[j].name = name])]
    ELSE [err |-> Some("KeyError"), child |-> None]

\* add_child(name, obj, set_color, **style)
AddChild(ch, child) ==
    IF child.name \in {ch[j].name : j \in 1..Len(ch)}
    THEN [children |-> ch, err |-> Some("ValueError")]
    ELSE [children |-> Append(ch, child), err |-> None]

\* add_scene_object_bundle(name, bundle) of a plotter: every SceneObject of
\* the bundle, nested ones included, receives a new actor in its style
RECURSIVE AttachAll(_)
AttachAll(ch) ==
    [j \in 1..Len(ch) |->
        IF ch[j].kind = "obj"
        THEN [ch[j] EXCEPT !.obj.actor = TRUE, !.obj.color = "base",
                           !.obj.visible = TRUE]
        ELSE [ch[j] EXCEPT !.kids = AttachAll(@)]]

\* a bundle set_color that forwards to every child
RECURSIVE BundleSetColorAll(_, _)
BundleSetColorAll(ch, c) ==
    [j \in 1..Len(ch) |->
        IF ch[j].kind = "obj" THEN [ch[j] EXCEPT !.obj = ObjSetColor(@, c)]
        ELSE [ch[j] EXCEPT !.kids = BundleSetColorAll(@, c)]]

\* SceneObjectBundle.set_color
RECURSIVE BundleSetColor(_, _)
BundleSetColor(ch, c) ==
    [j \in 1..Len(ch) |->
        IF ~ch[j].set_color THEN ch[j]
        ELSE IF ch[j].kind = "obj" THEN [ch[j] EXCEPT !.obj = ObjSetColor(@, c)]
        ELSE [ch[j] EXCEPT !.kids = BundleSetColor(@, c)]]

\* SceneObjectBundle.reset_color
RECURSIVE BundleResetColor(_)
BundleResetColor(ch) ==
    [j \in 1..Len(ch) |->
        IF ~ch[j].set_color THEN ch[j]
        ELSE IF ch[j].kind = "obj" THEN [ch[j] EXCEPT !.obj = ObjResetColor(@)]
        ELSE [ch[j] EXCEPT !.kids = BundleResetColor(@)]]

\* SceneObject.set_visibility
ObjSetVisibility(o, v) == IF o.actor THEN [o EXCEPT !.visible = v] ELSE o

\* SceneObject.is_visible
IsVisible(o) == IF o.actor THEN o.visible ELSE FALSE

\* a set_visibility that skips the children added with set_color=False
RECURSIVE BundleSetVisibilityFlagged(_, _)
BundleSetVisibilityFlagged(ch, v) ==
    [j \in 1..Len(ch) |->
        IF ~ch[j].set_color THEN ch[j]
        ELSE IF ch[j].kind = "obj"
        THEN [ch[j] EXCEPT !.obj = ObjSetVisibility(@, v)]
        ELSE [ch[j] EXCEPT !.kids = BundleSetVisibilityFlagged(@, v)]]

\* SceneObjectBundle.set_visibility
RECURSIVE BundleSetVisibility(_, _)
BundleSetVisibility(ch, v) ==
    [j \in 1..Len(ch) |->
        IF ch[j].kind = "obj" THEN [ch[j] EXCEPT !.obj = ObjSetVisibility(@, v)]
        ELSE [ch[j] EXCEPT !.kids = BundleSetVisibility(@, v)]]

\* SceneObjectBundle.set_focus
RECURSIVE ChildrenSetFocus(_, _)
ChildrenSetFocus(ch, f) ==
    [j \in 1..Len(ch) |->
        IF ch[j].kind = "obj" THEN [ch[j] EXCEPT !.obj = ObjSetFocus(@, f)]
        ELSE [ch[j] EXCEPT !.kids = ChildrenSetFocus(@, f)]]

\* exact fractions of 3-vectors: [num, den] stands for num / den
QPoint(p) == [num |-> p, den |-> 1]
QZero == QPoint(Zero3)
QAdd(a, b) ==
    [num |-> VAdd(VScale(b.den, a.num), VScale(a.den, b.num)),
     den |-> a.den * b.den]
RECURSIVE QSum(_)
QSum(rows) == IF Len(rows) = 0 THEN QZero ELSE QAdd(Head(rows), QSum(Tail(rows)))
\* np.vstack(rows).mean(axis=0)
QMean(rows) == [num |-> QSum(rows).num, den |-> QSum(rows).den * Len(rows)]
QEq(a, b) == VScale(b.den, a.num) = VScale(a.den, b.num)

RECURSIVE Flatten(_)
Flatten(seqs) == IF Len(seqs) = 0 THEN << >> ELSE Head(seqs) \o Flatten(Tail(seqs))

\* _compute_bundle_center: the rows stacked are the points of each child
\* SceneObject that has points and, for each child bundle, that bundle's
\* own centre
RECURSIVE ComputeBundleCenter(_)
ComputeBundleCenter(ch) ==
    LET rows == Flatten([j \in 1..Len(ch) |->
                    IF ch[j].kind = "bundle"
                    THEN <<ComputeBundleCenter(ch[j].kids)>>
                    ELSE [i \in 1..Len(ch[j].pts) |-> QPoint(ch[j].pts[i])]])
    IN IF Len(rows) > 0 THEN QMean(rows) ELSE QZero

BundleInit ==
    /\ ctor = [pts |-> EmptyMesh, size |-> 1]
    /\ mesh = EmptyMesh
    /\ default_mesh = EmptyMesh
    /\ default_centroid = Zero3
    /\ lastOp = Call("init", NoArgs)
    /\ prevOp = Call("init", NoArgs)
    /\ CanvasIdle
    /\ GridIdle
    /\ BundleIdle
    /\ WindowIdle

BundleDone(op, arg, err, ch) ==
    /\ children' = ch
    /\ bundleCall' = [op |-> op, err |-> err, arg |-> arg]
    /\ UNCHANGED <<objVars, ctxVars, canvasVars, gridVars, winVars>>

BundleAddChild(child) ==
    LET r == AddChild(children, child)
    IN /\ IsNone(r.err) => Len(children) < MaxChildren
       /\ BundleDone("add_child", Some(child.name), r.err, r.children)

BundleAttach ==
    /\ Len(children) > 0
    /\ BundleDone("add_scene_object_bundle", None, None, AttachAll(children))

BundleSetColorCall(c) ==
    /\ c \in SetColors
    /\ BundleDone("set_color", Some(c), None, BundleSetColor(children, c))

BundleResetColorCall ==
    /\ Len(children) > 0
    /\ BundleDone("reset_color", None, None, BundleResetColor(children))

BundleSetVisibilityCall(v) ==
    /\ v \in BOOLEAN
    /\ BundleDone("set_visibility", Some(v), None,
                  BundleSetVisibility(children, v))

BundleGetChild(name) ==
    /\ name \in ChildNames
    /\ BundleDone("get_child", Some(name), GetChild(children, name).err,
                  children)

BundleComputeCenter ==
    /\ children' = children
    /\ bundleCall' = [op |-> "_compute_bundle_center", err |-> None,
                      arg |-> Some(ComputeBundleCenter(children))]
    /\ UNCHANGED <<objVars, ctxVars, canvasVars, gridVars, winVars>>

BundleSetFocusCall(f) ==
    /\ f \in BOOLEAN
    /\ BundleDone("set_focus", Some(f), None, ChildrenSetFocus(children, f))

BundleNext ==
    \/ \E name \in ChildNames : \E flag \in BOOLEAN :
           BundleAddChild(LeafChild(name, flag))
    \/ \E name \in ChildNames : \E flag \in BOOLEAN :
           BundleAddChild(NestedChild(name, flag))
    \/ BundleAttach
    \/ \E c \in SetColors : BundleSetColorCall(c)
    \/ BundleResetColorCall
    \/ \E v \in BOOLEAN : BundleSetVisibilityCall(v)
    \/ \E f \in BOOLEAN : BundleSetFocusCall(f)
    \/ BundleComputeCenter
    \/ \E name \in ChildNames : BundleGetChild(name)

SpecBundle == BundleInit /\ [][BundleNext]_vars

(***************************************************************************)
(* C13                                                                     *)
(***************************************************************************)
\* what a forwarded set_color / reset_color leaves of one SceneObject
Recoloured(o, o2, call) ==
    IF ~o.actor THEN o2 = o
    ELSE IF call.op = "set_color"
    THEN /\ o2.color = Val(call.arg)
         /\ o2.default_color = IF IsNone(o.default_color) THEN Some(o.color)
                               ELSE o.default_color
    ELSE /\ o2.color = IF IsNone(o.default_color) THEN o.color
                       ELSE Val(o.default_color)
         /\ o2.default_color = o.default_color

\* the call reached child `after` of a bundle it was forwarded to
Reached(before, after, call) ==
    IF ~before.set_color THEN after = before
    ELSE IF before.kind = "obj" THEN Recoloured(before.obj, after.obj, call)
    ELSE \A k \in 1..Len(before.kids) :
            IF before.kids[k].set_color
            THEN Recoloured(before.kids[k].obj, after.kids[k].obj, call)
            ELSE after.kids[k] = before.kids[k]

Self == <<0, 0, "mesh">>

\* SceneObject(mesh, actor=actor)
Look(actor, npts) ==
    [actor |-> actor, color |-> "base", default_color |-> None,
     visible |-> TRUE, lines |-> Segments(npts)]

\* line cells passed to update_mesh_lines
NewLines == {0, 1}

\* colours passed to set_color
LifeColors == {"green", "blue"}

\* transform arguments: nothing, a translation alone, and all parts together
LifeArgs ==
    {NoArgs, [NoArgs EXCEPT !.t = Some(<<1, 0, 0>>)],
     [t |-> Some(<<1, 0, 0>>), R |-> Some(Rz90), s |-> Some(2), c |-> None]}

\* transform() edits self.default_mesh.copy().points: the default mesh keeps
\* its points
DefaultMeshInPlace(dflt, a) ==
    IF IsNone(a.R) /\ IsNone(a.s) /\ ~IsNone(a.t)
    THEN TranslateBy(dflt, Val(a.t))
    ELSE dflt

DefaultMeshCopied(dflt, a) == dflt

LifeInit ==
    /\ \E k \in CtorArgs :
        /\ ctor = k
        /\ mesh = CtorMesh(k)
        /\ default_mesh = CtorMesh(k)
        /\ default_centroid = CtorCentroid(k)
        /\ \E actor \in BOOLEAN : objs = (Self :> Look(actor, Len(k.pts)))
    /\ lastOp = Call("init", NoArgs)
    /\ prevOp = Call("init", NoArgs)
    /\ robot_focus = None
    /\ prev_robot_focus = None
    /\ notified = [s \in 1..NumSubscribers |-> << >>]
    /\ dimension = 2
    /\ scene_objects = << >>
    /\ surface = {}
    /\ robot_objs = << >>
    /\ gen = 0
    /\ canvasCall = NoCall
    /\ attitude = AttitudeNew
    /\ GridIdle
    /\ BundleIdle
    /\ WindowIdle

\* the state a method of the object leaves
LifeDone(op, pts, dflt, look) ==
    /\ mesh' = pts
    /\ default_mesh' = dflt
    /\ objs' = (Self :> look)
    /\ lastOp' = Call(op, NoArgs)
    /\ UNCHANGED <<default_centroid, ctor, prevOp, ctxVars, dimension,
                   scene_objects, surface, robot_objs, gen, canvasCall,
                   attitude,
                   gridVars, bundleVars, winVars>>

LifeTransform(a) ==
    /\ a \in LifeArgs
    /\ LifeDone("transform",
                UpdateMeshPoints(mesh, TransformPts(mesh, default_mesh,
                                                    default_centroid, a)),
                DefaultMeshCopied(default_mesh, a), objs[Self])

LifeTranslate(v) ==
    /\ InBox(TranslateBy(mesh, v))
    /\ LifeDone("translate", UpdateMeshPoints(mesh, TranslateBy(mesh, v)),
                default_mesh, objs[Self])

LifeRotate(R, c) ==
    LET center == IF IsNone(c) THEN default_centroid ELSE Val(c)
        new == RotateAbout(mesh, R, center)
    IN /\ InBox(new)
       /\ LifeDone("rotate", UpdateMeshPoints(mesh, new), default_mesh,
                   objs[Self])

LifeScale(k, c) ==
    LET center == IF IsNone(c) THEN default_centroid ELSE Val(c)
        new == ScaleAbout(mesh, k, center)
    IN /\ InBox(new)
       /\ LifeDone("scale", UpdateMeshPoints(mesh, new), default_mesh,
                   objs[Self])

LifeUpdateMesh(new) ==
    /\ new \in NewMeshes
    /\ LifeDone("update_mesh", new, default_mesh,
                [objs[Self] EXCEPT !.lines = Segments(Len(new))])

LifeUpdateMeshPoints(new) ==
    /\ new \in NewMeshes
    /\ mesh' = UpdateMeshPoints(mesh, new)
    /\ lastOp' = Call("update_mesh_points", [new_points |-> new])
    /\ UNCHANGED <<default_mesh, default_centroid, ctor, prevOp, ctxVars,
                   canvasVars, gridVars, bundleVars, winVars>>

LifeUpdateMeshLines(n) ==
    /\ n \in NewLines
    /\ LifeDone("update_mesh_lines", mesh, default_mesh,
                [objs[Self] EXCEPT !.lines = n])

LifeSetColor(c) ==
    /\ c \in LifeColors
    /\ LifeDone("set_color", mesh, default_mesh, ObjSetColor(objs[Self], c))

LifeResetColor ==
    /\ lastOp.op # "init"
    /\ LifeDone("reset_color", mesh, default_mesh, ObjResetColor(objs[Self]))

LifeSetVisibility(v) ==
    /\ v \in BOOLEAN
    /\ LifeDone("set_visibility", mesh, default_mesh,
                ObjSetVisibility(objs[Self], v))

LifeNext ==
    \/ \E a \in LifeArgs : LifeTransform(a)
    \/ \E v \in Shifts : LifeTranslate(v)
    \/ \E c \in Centers : LifeRotate(Rz90, c)
    \/ \E c \in Centers : LifeScale(2, c)
    \/ \E m \in NewMeshes : LifeUpdateMesh(m)
    \/ \E m \in NewMeshes : LifeUpdateMeshPoints(m)
    \/ \E n \in NewLines : LifeUpdateMeshLines(n)
    \/ \E c \in LifeColors : LifeSetColor(c)
    \/ LifeResetColor
    \/ \E v \in BOOLEAN : LifeSetVisibility(v)

SpecObjLife == LifeInit /\ [][LifeNext]_vars

(***************************************************************************)
(* C18                                                                     *)
(***************************************************************************)
\* C18: whatever methods have been called on a SceneObject (transform,
\* translate, rotate, scale, update_mesh_points, update_mesh_lines,
\* update_mesh, set_color, reset_color, set_visibility), default_centroid and
\* the points of default_mesh are those the constructor left.
C18_DefaultsImmutable ==
    /\ default_mesh = CtorMesh(ctor)
    /\ default_centroid = CtorCentroid(ctor)

\* an object with an actor, moved off its default points, recoloured and
\* hidden, just after a transform
C18_Witness ==
    /\ lastOp.op = "transform"
    /\ Len(default_mesh) > 0
    /\ mesh # default_mesh
    /\ objs[Self].color # "base"
    /\ ~objs[Self].visible

(***************************************************************************)
(* C19                                                                     *)
(***************************************************************************)
I3 == << <<1, 0, 0>>, <<0, 1, 0>>, <<0, 0, 1>> >>

\* translation + center + scale_factor * R * (p0 - center), an omitted part
\* being the identity and the centre default_centroid when none is passed
ComposedPoint(p0, a) ==
    LET t == IF IsNone(a.t) THEN Zero3 ELSE Val(a.t)
        R == IF IsNone(a.R) THEN I3 ELSE Val(a.R)
        k == IF IsNone(a.s) THEN 1 ELSE Val(a.s)
        c == IF IsNone(a.c) THEN default_centroid ELSE Val(a.c)
    IN VAdd(VAdd(t, c), VScale(k, MatVec(R, VSub(p0, c))))

Composed(a) == [i \in 1..Len(default_mesh) |-> ComposedPoint(default_mesh[i], a)]

\* C19 as stated: after transform(translation, R, scale_factor, center) on
\* any SceneObject, each point is translation + center + scale_factor * R *
\* (p0 - center) for the corresponding default_mesh point p0.
C19_Original ==
    lastOp.op = "transform" => mesh = Composed(lastOp.a)

\* C19 amended: the same, for every SceneObject whose current mesh has as
\* many points as its default mesh.
C19_TransformOrder ==
    (lastOp.op = "transform" /\ Len(mesh) = Len(default_mesh))
        => mesh = Composed(lastOp.a)

\* a transform with translation, rotation and scale about the default
\* centroid, on a triangle
C19_Witness ==
    /\ lastOp.op = "transform"
    /\ ~IsNone(lastOp.a.t) /\ ~IsNone(lastOp.a.R) /\ ~IsNone(lastOp.a.s)
    /\ IsNone(lastOp.a.c)
    /\ default_centroid # Zero3
    /\ Len(mesh) = 3 /\ Len(default_mesh) = 3

(***************************************************************************)
(* C20                                                                     *)
(***************************************************************************)
Shifted(pts, v) == [i \in 1..Len(pts) |-> VAdd(pts[i], v)]
RelativeOps == {"translate", "rotate", "scale"}

\* C20 as stated, for any SceneObject: translate(v) moves every current
\* point by v (so n calls move it by n*v); translate(v) right after
\* transform(a) leaves the points transform(a) gives from the default points,
\* moved by v; a transform right after a relative edit leaves the points it
\* leaves on a freshly constructed object.
C20_Original ==
    [][/\ lastOp'.op = "translate"
            => mesh' = Shifted(mesh, Val(lastOp'.a.t))
       /\ (lastOp.op = "transform" /\ lastOp'.op = "translate")
            => mesh' = Shifted(Composed(lastOp.a), Val(lastOp'.a.t))
       /\ (lastOp.op \in RelativeOps /\ lastOp'.op = "transform")
            => mesh' = FreshTransform(ctor, lastOp'.a)]_vars

\* C20 amended: the first part as stated; the other two for every
\* SceneObject whose current mesh has as many points as its default mesh.
C20_RelativeEdits ==
    [][/\ lastOp'.op = "translate"
            => mesh' = Shifted(mesh, Val(lastOp'.a.t))
       /\ (lastOp.op = "transform" /\ lastOp'.op = "translate"
                /\ Len(mesh) = Len(default_mesh))
            => mesh' = Shifted(Composed(lastOp.a), Val(lastOp'.a.t))
       /\ (lastOp.op \in RelativeOps /\ lastOp'.op = "transform"
                /\ Len(mesh) = Len(default_mesh))
            => mesh' = FreshTransform(ctor, lastOp'.a)]_vars

\* a transform that discarded relative edits: it follows a relative edit
\* made on points that were off the default ones, on a triangle
C20_Witness ==
    /\ lastOp.op = "transform"
    /\ prevOp.op \in RelativeOps
    /\ ~IsNone(lastOp.a.t)
    /\ Len(mesh) = 3 /\ Len(default_mesh) = 3
    /\ mesh = FreshTransform(ctor, lastOp.a)
    /\ mesh # default_mesh

(***************************************************************************)
(* C21                                                                     *)
(***************************************************************************)
\* the colour the object's actor has before any set_color
FirstColor == Look(TRUE, 0).color

\* C21: on a SceneObject with an actor, the recorded restore point is unset
\* or the colour the object had before its first set_color (later set_color
\* calls do not overwrite it), and right after reset_color the object has
\* that colour again, whether or not set_color was called before.
C21_ColorRoundTrip ==
    objs[Self].actor
        => /\ objs[Self].default_color \in {None, Some(FirstColor)}
           /\ IsNone(objs[Self].default_color) => objs[Self].color = FirstColor
           /\ lastOp.op = "reset_color" => objs[Self].color = FirstColor

\* a reset_color that restored the colour recorded by a set_color
C21_Witness ==
    /\ objs[Self].actor
    /\ lastOp.op = "reset_color"
    /\ objs[Self].default_color = Some(FirstColor)
    /\ objs[Self].color = FirstColor

(***************************************************************************)
(* C22                                                                     *)
(***************************************************************************)
PointEdits ==
    {"update_mesh_points", "transform", "translate", "rotate", "scale"}

\* C22: update_mesh_points(new_points) completes; when the counts differ it
\* leaves the points, the line cells and the actor as they were, and when
\* they agree the points become new_points.  update_mesh_points, transform,
\* translate, rotate and scale never change the point count.
C22_GuardedNoOp ==
    [][/\ lastOp'.op = "update_mesh_points"
            => /\ objs' = objs
               /\ mesh' = IF Len(lastOp'.a.new_points) = Len(mesh)
                          THEN lastOp'.a.new_points ELSE mesh
       /\ lastOp'.op \in PointEdits
            => /\ Len(mesh') = Len(mesh)
               /\ objs'[Self].lines = objs[Self].lines]_vars

\* an update_mesh_points with two points on a mesh of three
C22_Witness ==
    /\ lastOp.op = "update_mesh_points"
    /\ Len(lastOp.a.new_points) = 2
    /\ Len(mesh) = 3

(***************************************************************************)
(* C23                                                                     *)
(***************************************************************************)
\* every mesh point of every descendant SceneObject, through all levels
RECURSIVE AllPoints(_)
AllPoints(ch) ==
    Flatten([j \in 1..Len(ch) |->
                IF ch[j].kind = "bundle" THEN AllPoints(ch[j].kids)
                ELSE ch[j].pts])

MeanOfAllPoints(ch) ==
    IF Len(AllPoints(ch)) = 0 THEN QZero
    ELSE QMean([i \in 1..Len(AllPoints(ch)) |-> QPoint(AllPoints(ch)[i])])

\* C23: _compute_bundle_center returns the arithmetic mean of all mesh
\* points of all descendant SceneObjects, counted point by point through
\* every level of nesting, and (0,0,0) for a bundle without geometry.
C23_BundleCentroid ==
    bundleCall.op = "_compute_bundle_center"
        => QEq(Val(bundleCall.arg), MeanOfAllPoints(children))

(***************************************************************************)
(* C24                                                                     *)
(***************************************************************************)
\* the SceneObjects below a bundle, through all levels
RECURSIVE LeafObjs(_)
LeafObjs(ch) ==
    Flatten([j \in 1..Len(ch) |->
                IF ch[j].kind = "bundle" THEN LeafObjs(ch[j].kids)
                ELSE <<ch[j].obj>>])

\* C24 as stated: right after set_visibility(v) on a bundle with children,
\* every SceneObject below it reports is_visible() == v.
C24_Original ==
    (bundleCall.op = "set_visibility" /\ Len(children) > 0)
        => \A i \in 1..Len(LeafObjs(children)) :
              IsVisible(LeafObjs(children)[i]) = Val(bundleCall.arg)

\* C24 amended: right after set_visibility(v) on a bundle with children,
\* every SceneObject below it that has an actor reports is_visible() == v,
\* and every one without an actor reports False.
C24_VisibilityBroadcast ==
    (bundleCall.op = "set_visibility" /\ Len(children) > 0)
        => \A i \in 1..Len(LeafObjs(children)) :
              IsVisible(LeafObjs(children)[i])
                  = (LeafObjs(children)[i].actor /\ Val(bundleCall.arg))

\* set_visibility(True) on a bundle with an attached child SceneObject and an
\* attached nested bundle
C24_Witness ==
    /\ bundleCall.op = "set_visibility"
    /\ bundleCall.arg = Some(TRUE)
    /\ \E j \in 1..Len(children) :
          children[j].kind = "obj" /\ children[j].obj.actor
    /\ \E j \in 1..Len(children) :
          /\ children[j].kind = "bundle"
          /\ ~children[j].set_color
          /\ \A k \in 1..Len(children[j].kids) : children[j].kids[k].obj.actor

(***************************************************************************)
(* C25                                                                     *)
(***************************************************************************)
ChildNamesOf(ch) == {ch[j].name : j \in 1..Len(ch)}

\* C25: add_child under a name the bundle already holds raises the
\* duplicate-name error and leaves the children (the existing child, its
\* set_color flag) as they were; get_child of a name the bundle does not hold
\* raises the not-found error.
C25_ChildNamesUnique ==
    [][/\ (bundleCall'.op = "add_child"
                /\ Val(bundleCall'.arg) \in ChildNamesOf(children))
            => /\ bundleCall'.err = Some("ValueError")
               /\ children' = children
       /\ (bundleCall'.op = "get_child"
                /\ Val(bundleCall'.arg) \notin ChildNamesOf(children))
            => /\ bundleCall'.err = Some("KeyError")
               /\ children' = children]_vars

\* a refused add_child on a bundle that holds two children
C25_Witness ==
    /\ bundleCall.op = "add_child"
    /\ bundleCall.err = Some("ValueError")
    /\ Len(children) = 2
    /\ Val(bundleCall.arg) \in ChildNamesOf(children)

(***************************************************************************)
(* One Line (a polyline SceneObject) through set_points                    *)
(*                                                                         *)
(* mesh holds the points of the polyline and objs[Self].lines its line     *)
(* cells, kept explicitly: a cell <<2, i, j>> is a segment of two points   *)
(* joining the points of (zero-based) index i and j, as in the flat        *)
(* connectivity array [2, i, j, 2, ...] the code builds.  lastOp records   *)
(* the last call and the points it was given.                              *)
(***************************************************************************)
MaxLinePts == 3   \* greatest number of points passed to set_points

\* rows of the arrays passed to Line(points) and set_points: N x 2 or N x 3
LineRows2D == {<<1, 2>>}
LineRows3D == {<<0, 0, 1>>, <<2, 1, 0>>}
SeqsUpTo(S, n) == UNION {[1..k -> S] : k \in 0..n}
LineInputs == SeqsUpTo(LineRows2D, MaxLinePts) \cup SeqsUpTo(LineRows3D, MaxLinePts)

\* np.hstack([points, np.zeros((n_pts, 1))]) when points.shape[1] == 2
PadTo3D(points) ==
    [j \in 1..Len(points) |->
        IF Len(points[j]) = 2 THEN Append(points[j], 0) ELSE points[j]]

\* a connectivity with one cell per point: the last cell names a point past
\* the end
LineCellsPerPoint(n_pts) ==
    IF n_pts > 1 THEN [i \in 1..n_pts |-> <<2, i - 1, i>>] ELSE << >>

\* lines = [2, i, i + 1] for i in range(n_pts - 1) when n_pts > 1, else empty
LineCells(n_pts) ==
    IF n_pts > 1 THEN [i \in 1..(n_pts - 1) |-> <<2, i - 1, i>>] ELSE << >>

\* Line._gen_line_from_points
GenLineFromPoints(points) ==
    [points |-> PadTo3D(points), lines |-> LineCells(Len(points))]

\* the appearance of a Line: that of a SceneObject, with its cells
LineLook(actor, cells) == [Look(actor, 0) EXCEPT !.lines = cells]

\* Line(points=None) and Line(points)
LineInit ==
    /\ \E p \in LineInputs \cup {None} :
        LET g == IF IsNone(p) THEN [points |-> EmptyMesh, lines |-> << >>]
                 ELSE GenLineFromPoints(p)
        IN /\ ctor = [pts |-> g.points, size |-> 1]
           /\ mesh = g.points
           /\ default_mesh = g.points
           /\ default_centroid = Center(g.points)
           /\ objs = (Self :> LineLook(FALSE, g.lines))
    /\ lastOp = Call("init", NoArgs)
    /\ prevOp = Call("init", NoArgs)
    /\ robot_focus = None
    /\ prev_robot_focus = None
    /\ notified = [s \in 1..NumSubscribers |-> << >>]
    /\ dimension = 2
    /\ scene_objects = << >>
    /\ surface = {}
    /\ robot_objs = << >>
    /\ gen = 0
    /\ canvasCall = NoCall
    /\ attitude = AttitudeNew
    /\ GridIdle
    /\ BundleIdle
    /\ WindowIdle

LineKept ==
    UNCHANGED <<default_mesh, default_centroid, ctor, prevOp, ctxVars,
                dimension, scene_objects, surface, robot_objs, gen,
                canvasCall, attitude, gridVars, bundleVars, winVars>>

\* Line.set_points(new_points): update_mesh(_gen_line_from_points(new_points))
LineSetPoints(new_points) ==
    LET line_mesh == GenLineFromPoints(new_points)
    IN /\ mesh' = line_mesh.points
       /\ objs' = (Self :> [objs[Self] EXCEPT !.lines = line_mesh.lines])
       /\ lastOp' = Call("set_points", [new_points |-> new_points])
       /\ LineKept

\* the plotter's add_scene_object: the line receives its actor
LineAttach ==
    /\ ~objs[Self].actor
    /\ objs' = (Self :> [objs[Self] EXCEPT !.actor = TRUE])
    /\ lastOp' = Call("add_scene_object", NoArgs)
    /\ UNCHANGED mesh
    /\ LineKept

\* update_mesh_points on the line: points only, behind the point-count guard
LineUpdateMeshPoints(new_points) ==
    /\ mesh' = UpdateMeshPoints(mesh, PadTo3D(new_points))
    /\ lastOp' = Call("update_mesh_points", [new_points |-> new_points])
    /\ UNCHANGED objs
    /\ LineKept

LineNext ==
    \/ \E p \in LineInputs : LineSetPoints(p)
    \/ LineAttach
    \/ \E p \in SeqsUpTo(LineRows3D, MaxLinePts) : LineUpdateMeshPoints(p)

SpecLine == LineInit /\ [][LineNext]_vars

(***************************************************************************)
(* C26                                                                     *)
(***************************************************************************)
\* C26: after set_points with N points the line holds exactly those N points
\* (a row of two coordinates gaining z = 0) and, for N >= 2, N - 1 cells of
\* two points each, cell j joining point j and point j + 1; for N = 0 or 1
\* it holds no cell.  Every cell of a line names points the line has.
C26_LineTopology ==
    /\ \A j \in 1..Len(objs[Self].lines) :
          /\ objs[Self].lines[j][1] = 2
          /\ objs[Self].lines[j][2] \in 0..(Len(mesh) - 1)
          /\ objs[Self].lines[j][3] \in 0..(Len(mesh) - 1)
    /\ lastOp.op = "set_points" =>
        LET N == Len(lastOp.a.new_points)
        IN /\ Len(mesh) = N
           /\ \A j \in 1..N :
                 /\ Len(mesh[j]) = 3
                 /\ \A k \in 1..Len(lastOp.a.new_points[j]) :
                        mesh[j][k] = lastOp.a.new_points[j][k]
                 /\ Len(lastOp.a.new_points[j]) = 2 => mesh[j][3] = 0
           /\ Len(objs[Self].lines) = (IF N >= 2 THEN N - 1 ELSE 0)
           /\ \A j \in 1..Len(objs[Self].lines) :
                 objs[Self].lines[j] = <<2, j - 1, j>>

\* set_points with a single point on an attached line that was constructed
\* with three points and two segments
C26_Witness ==
    /\ lastOp.op = "set_points"
    /\ Len(lastOp.a.new_points) = 1
    /\ objs[Self].actor
    /\ Len(default_mesh) = 3
    /\ objs[Self].lines = << >>

(***************************************************************************)
(* One Axes bundle through transform_to                                    *)
(*                                                                         *)
(* ctor holds the origin and size the Axes was constructed with (its       *)
(* attributes origin and size, never reassigned), children the three axis  *)
(* lines "x", "y", "z" with their current points, default_mesh the three   *)
(* lines' default meshes in the same order.  bundleCall records the last   *)
(* call and its arguments.                                                 *)
(***************************************************************************)
AxisLabels == <<"x", "y", "z">>
AxesOrigins == {Zero3, <<1, 0, 0>>}
AxesSizes == {1, 2}
AxesCentroids == {None, Some(<<1, 1, 0>>), Some(<<0, 2, 0>>), Some(<<0, 0, 1>>)}
Rx90 == << <<1, 0, 0>>, <<0, 0, -1>>, <<0, 1, 0>> >>
AxesRotations == {None, Some(I3), Some(Rz90), Some(Rx90)}

\* R[:, k]
MatCol(R, k) == <<R[1][k], R[2][k], R[3][k]>>

\* StraightLine(origin, origin + size * np.eye(3)[i])
AxisLine(origin, size, k) == <<origin, VAdd(origin, VScale(size, I3[k]))>>

AxesInit ==
    /\ \E o \in AxesOrigins : \E size \in AxesSizes :
        /\ ctor = [origin |-> o, size |-> size]
        /\ default_mesh = [k \in 1..3 |-> AxisLine(o, size, k)]
        /\ children = [k \in 1..3 |->
                         [LeafChild(<<AxisLabels[k]>>, TRUE)
                            EXCEPT !.pts = AxisLine(o, size, k)]]
    /\ mesh = EmptyMesh
    /\ default_centroid = Zero3
    /\ lastOp = Call("init", NoArgs)
    /\ prevOp = Call("init", NoArgs)
    /\ bundleCall = NoBundleCall
    /\ CanvasIdle
    /\ GridIdle
    /\ WindowIdle

\* Axes.transform_to(centroid, R), the points it leaves axis k with
AxesTransformToPts(k, centroid, R) ==
    LET origin == IF IsNone(centroid) THEN ctor.origin ELSE Val(centroid)
        cur == children[k].pts
    IN IF IsNone(R)
       THEN UpdateMeshPoints(cur,
                TransformPts(cur, default_mesh[k], Center(default_mesh[k]),
                    [NoArgs EXCEPT !.t = Some(VSub(origin, ctor.origin))]))
       ELSE UpdateMeshPoints(cur,
                <<origin, VAdd(origin, VScale(ctor.size, MatCol(Val(R), k)))>>)

AxesTransformTo(centroid, R) ==
    /\ children' = [k \in 1..3 |->
                      [children[k] EXCEPT !.pts = AxesTransformToPts(k, centroid, R)]]
    /\ bundleCall' = [op |-> "transform_to", err |-> None,
                      arg |-> Some([centroid |-> centroid, R |-> R])]
    /\ UNCHANGED <<objVars, ctxVars, canvasVars, gridVars, winVars>>

\* the plotter's add_scene_object_bundle: every axis line receives its actor
AxesAttach ==
    /\ \E k \in 1..3 : ~children[k].obj.actor
    /\ children' = AttachAll(children)
    /\ bundleCall' = [op |-> "add_scene_object_bundle", err |-> None,
                      arg |-> None]
    /\ UNCHANGED <<objVars, ctxVars, canvasVars, gridVars, winVars>>

AxesNext ==
    \/ \E centroid \in AxesCentroids : \E R \in AxesRotations :
           AxesTransformTo(centroid, R)
    \/ AxesAttach

SpecAxes == AxesInit /\ [][AxesNext]_vars

(***************************************************************************)
(* C27                                                                     *)
(***************************************************************************)
AxisStart(ch, k) == ch[k].pts[1]
AxisVector(ch, k) == VSub(ch[k].pts[2], ch[k].pts[1])

\* C27: transform_to(origin) with R omitted leaves every axis segment
\* starting at the origin passed, with the direction and length it had
\* immediately before the call; transform_to(origin, R) leaves axis k running
\* from origin to origin + R[:, k] * size.
C27_AxesOriginOnly ==
    [][bundleCall'.op = "transform_to" /\ ~IsNone(Val(bundleCall'.arg).centroid)
        => LET a == Val(bundleCall'.arg)
               o == Val(a.centroid)
           IN \A k \in 1..3 :
                /\ AxisStart(children', k) = o
                /\ IsNone(a.R) =>
                      AxisVector(children', k) = AxisVector(children, k)
                /\ ~IsNone(a.R) =>
                      AxisVector(children', k)
                          = VScale(ctor.size, MatCol(Val(a.R), k))]_vars

C29_MissingLabelFails ==
    \A c \in Cells :
        (lastCall[c].op = "update" /\ lastCall[c].n > 0)
            => /\ IsNone(lastCall[c].err) => lastCall[c].rot
               /\ ~IsNone(lastCall[c].err) => lastCall[c].painted = << >>

(***************************************************************************)
(* MainWindow: the driver of playback                                      *)
(*                                                                         *)
(* Handlers run one at a time on the GUI thread.  A handler is computed on *)
(* a record w of the window's attributes, which also collects the calls    *)
(* the handler made on the grid: frames, the update_scenes calls as        *)
(* [grid, data, idx], and resets, the reset_scenes calls as [grid, data].  *)
(* w.ok tells whether the canvases of the grid complete their calls; w.err *)
(* is the exception that ended the handler, after which nothing of it      *)
(* runs.  A grid is known by a number, data by [id, T] with T frames.      *)
(***************************************************************************)
MaxFrames == 3    \* greatest number of frames of a data file
MaxGrids == 2     \* layouts loaded in one run
MaxLoads == 2     \* data files loaded in one run

DataFiles == [id : 1..MaxLoads, T : 1..MaxFrames]
Keys_ == {"space", "r", "left", "right", "comma", "period"}

Truthy(u) == u = Some(TRUE)
Raise(w, e) == [w EXCEPT !.err = Some(e)]
Clamp(v, lo, hi) == IF v < lo THEN lo ELSE IF v > hi THEN hi ELSE v

\* the attributes of the window at the start of a handler
Window(ok) ==
    [grid |-> grid, timer |-> timer, playing |-> playing,
     updated |-> updated, sim_data |-> sim_data,
     current_time_index |-> current_time_index, time_slider |-> time_slider,
     key_press_allowed |-> key_press_allowed,
     arg |-> None, frames |-> << >>, resets |-> << >>, err |-> None,
     ok |-> ok]

\* play_simulation
PlaySimulation(w) ==
    IF ~IsNone(w.err) THEN w
    ELSE LET w1 == [w EXCEPT !.playing = TRUE]
         IN IF IsNone(w1.grid) THEN Raise(w1, "AttributeError")
            ELSE [w1 EXCEPT !.timer = TRUE]

\* a stop_simulation that leaves the grid's timer running
StopSimulationFlagOnly(w) ==
    IF ~IsNone(w.err) THEN w ELSE [w EXCEPT !.playing = FALSE]

\* stop_simulation
StopSimulation(w) ==
    IF ~IsNone(w.err) THEN w
    ELSE LET w1 == [w EXCEPT !.playing = FALSE]
         IN IF IsNone(w1.grid) THEN Raise(w1, "AttributeError")
            ELSE [w1 EXCEPT !.timer = FALSE]

\* self.grid.update_scenes(self.sim_data, self.current_time_index)
UpdateScenes(w) ==
    IF IsNone(w.grid) THEN Raise(w, "AttributeError")
    ELSE LET w1 == [w EXCEPT !.frames =
                        Append(@, [grid |-> Val(w.grid).id,
                                   scenes |-> Val(w.grid).scenes,
                                   data |-> Val(w.sim_data).id,
                                   idx |-> w.current_time_index])]
         IN IF w.ok THEN w1 ELSE Raise(w1, "CanvasError")

\* self.grid.reset_scenes(self.sim_data, self.sim_settings)
ResetScenes(w) ==
    IF ~IsNone(w.err) THEN w
    ELSE IF IsNone(w.grid) THEN Raise(w, "AttributeError")
    ELSE LET w1 == [w EXCEPT !.resets =
                        Append(@, [grid |-> Val(w.grid).id,
                                   data |-> Val(w.sim_data).id]),
                             !.grid = Some([Val(w.grid) EXCEPT !.scenes =
                                                Some(Val(w.sim_data).id)])]
         IN IF w.ok THEN w1 ELSE Raise(w1, "CanvasError")

\* update_simulation
UpdateSimulation(w) ==
    IF ~IsNone(w.err) THEN w
    ELSE IF ~IsNone(w.sim_data) /\ ~Truthy(w.updated)
    THEN LET last == Val(w.sim_data).T - 1
         IN IF w.current_time_index < last
            THEN LET w1 == UpdateScenes(w)
                 IN IF IsNone(w1.err) THEN [w1 EXCEPT !.updated = Some(TRUE)]
                    ELSE w1
            ELSE IF w.current_time_index = last
            THEN LET w2 == StopSimulation(UpdateScenes(w))
                 IN IF IsNone(w2.err) THEN [w2 EXCEPT !.updated = Some(TRUE)]
                    ELSE w2
            ELSE w
    ELSE StopSimulation(w)

\* an update_time that renders before it stores the new index
UpdateTimeStale(w, value) ==
    IF ~IsNone(w.err) THEN w
    ELSE LET w1 == [w EXCEPT !.updated = IF value # w.current_time_index
                                         THEN Some(FALSE) ELSE @]
             w2 == UpdateSimulation(w1)
         IN IF IsNone(w1.sim_data) THEN Raise(w1, "TypeError")
            ELSE IF IsNone(w2.err)
            THEN [w2 EXCEPT !.updated = None, !.current_time_index = value]
            ELSE w2

\* update_time(value), the slot of time_slider.valueChanged; update_simulation
\* returns None, which is what self.updated is left with
UpdateTime(w, value) ==
    IF ~IsNone(w.err) THEN w
    ELSE LET w1 == [w EXCEPT !.updated = IF value # w.current_time_index
                                         THEN Some(FALSE) ELSE @,
                             !.current_time_index = value]
             w2 == UpdateSimulation(w1)
         IN IF IsNone(w1.sim_data) THEN Raise(w1, "TypeError")
            ELSE IF value >= Val(w1.sim_data).T THEN Raise(w1, "IndexError")
            ELSE IF IsNone(w2.err) THEN [w2 EXCEPT !.updated = None]
            ELSE w2

\* time_slider.setValue(v): the value is bounded to the range; valueChanged
\* is emitted when the value changed and the signals are not blocked
SetValue(w, v) ==
    IF ~IsNone(w.err) THEN w
    ELSE LET b == Clamp(v, 0, w.time_slider.maximum)
             w1 == [w EXCEPT !.time_slider.value = b]
         IN IF b = w.time_slider.value THEN w
            ELSE IF w.time_slider.blocked THEN w1
            ELSE UpdateTime(w1, b)

\* time_slider.setRange(0, hi): the value is bounded to the new range
SetRange(w, hi) ==
    IF ~IsNone(w.err) THEN w
    ELSE LET top == IF hi < 0 THEN 0 ELSE hi
             b == Clamp(w.time_slider.value, 0, top)
             w1 == [w EXCEPT !.time_slider.maximum = top,
                             !.time_slider.value = b]
         IN IF b = w.time_slider.value \/ w.time_slider.blocked THEN w1
            ELSE UpdateTime(w1, b)

\* reset_simulation
ResetSimulation(w) ==
    IF ~IsNone(w.err) THEN w
    ELSE UpdateSimulation(SetValue([w EXCEPT !.updated = Some(FALSE)], 0))

\* next_simulation_step, the callback of the grid's timer
NextSimulationStep(w) ==
    SetValue(w, IF w.time_slider.value + 1 < w.time_slider.maximum
                THEN w.time_slider.value + 1 ELSE w.time_slider.maximum)

\* process_csv, with auto_play left at its default False
ProcessCsv(w, d) ==
    LET w1 == SetRange([w EXCEPT !.sim_data = Some(d)], d.T - 1)
        w2 == IF IsNone(w1.err) THEN [w1 EXCEPT !.time_slider.blocked = FALSE]
              ELSE w1
    IN ResetSimulation(ResetScenes(w2))

\* load_csv(file_path)
LoadCsv(w, d) == IF IsNone(w.grid) THEN w ELSE ProcessCsv(w, d)

\* load_grid_layout: the old grid is dropped, the new grid's timer is idle
\* and setup_scenes has built its canvases, which no reset_scenes has reached
LoadGridLayout(w, g) ==
    [w EXCEPT !.grid = Some([id |-> g, scenes |-> None]), !.timer = FALSE]

\* get_slider_num_steps() // 100 * 5
KeyStep(w) == (w.time_slider.maximum \div 100) * 5

\* handle_key_press
HandleKeyPress(w, key) ==
    IF ~w.key_press_allowed THEN w
    ELSE LET v == w.time_slider.value
             w1 == CASE key = "space" ->
                          IF IsNone(w.sim_data) THEN w
                          ELSE IF ~w.playing THEN PlaySimulation(w)
                          ELSE StopSimulation(w)
                     [] key = "r" -> ResetSimulation(w)
                     [] key = "left" -> SetValue(w, v - KeyStep(w))
                     [] key = "right" -> SetValue(w, v + KeyStep(w))
                     [] key = "comma" -> SetValue(w, v - 1)
                     [] key = "period" -> SetValue(w, v + 1)
         IN IF IsNone(w1.err) THEN [w1 EXCEPT !.key_press_allowed = FALSE]
            ELSE w1

\* the state a handler leaves; an exception that leaves a handler ends the run
WindowDone(op, w) ==
    /\ grid' = w.grid
    /\ timer' = w.timer
    /\ playing' = w.playing
    /\ updated' = w.updated
    /\ sim_data' = w.sim_data
    /\ current_time_index' = w.current_time_index
    /\ time_slider' = w.time_slider
    /\ key_press_allowed' = w.key_press_allowed
    /\ alive' = IsNone(w.err)
    /\ windowCall' = [op |-> op, arg |-> w.arg, frames |-> w.frames,
                      resets |-> w.resets, err |-> w.err]
    /\ UNCHANGED <<objVars, ctxVars, canvasVars, gridVars, bundleVars>>

WindowInit ==
    /\ ctor = [pts |-> EmptyMesh, size |-> 1]
    /\ mesh = EmptyMesh
    /\ default_mesh = EmptyMesh
    /\ default_centroid = Zero3
    /\ lastOp = Call("init", NoArgs)
    /\ prevOp = Call("init", NoArgs)
    /\ CanvasIdle
    /\ GridIdle
    /\ BundleIdle
    /\ WindowConstructed

\* the toolbar asks for a layout
WinLoadGridLayout ==
    /\ alive
    /\ (IF IsNone(grid) THEN 0 ELSE Val(grid).id) < MaxGrids
    /\ WindowDone("load_grid_layout",
                  LoadGridLayout(Window(TRUE),
                                 (IF IsNone(grid) THEN 0 ELSE Val(grid).id) + 1))

\* the toolbar hands over a data file
WinLoadCsv(d, ok) ==
    /\ alive
    /\ d.id = (IF IsNone(sim_data) THEN 0 ELSE Val(sim_data).id) + 1
    /\ WindowDone("load_csv", LoadCsv(Window(ok), d))

WinPlay ==
    /\ alive
    /\ WindowDone("play_simulation", PlaySimulation(Window(TRUE)))

WinStop ==
    /\ alive
    /\ WindowDone("stop_simulation", StopSimulation(Window(TRUE)))

WinReset(ok) ==
    /\ alive
    /\ WindowDone("reset_simulation", ResetSimulation(Window(ok)))

\* the grid's timer fires
WinTimerTick(ok) ==
    /\ alive
    /\ timer
    /\ WindowDone("next_simulation_step", NextSimulationStep(Window(ok)))

\* the user presses the slider handle: sliderPressed reaches slider_pressed
\* unless the slider's signals are blocked
WinSliderPressed ==
    /\ alive
    /\ WindowDone("slider_pressed",
                  IF time_slider.blocked THEN Window(TRUE)
                  ELSE StopSimulation(Window(TRUE)))

\* the user moves the slider (drag, click on the groove, wheel)
WinSliderSeek(v, ok) ==
    /\ alive
    /\ v \in 0..time_slider.maximum
    /\ WindowDone("slider_seek", SetValue(Window(ok), v))

WinKeyPress(key, ok) ==
    /\ alive
    /\ key \in Keys_
    /\ WindowDone("handle_key_press",
                  HandleKeyPress([Window(ok) EXCEPT !.arg = Some(key)], key))

\* key_press_timer fires: enable_key_press
WinKeyTimer ==
    /\ alive
    /\ ~key_press_allowed
    /\ key_press_allowed' = TRUE
    /\ windowCall' = [NoWindowCall EXCEPT !.op = "enable_key_press"]
    /\ UNCHANGED <<grid, timer, playing, updated, sim_data,
                   current_time_index, time_slider, alive>>
    /\ UNCHANGED <<objVars, ctxVars, canvasVars, gridVars, bundleVars>>

WindowNext ==
    \/ WinLoadGridLayout
    \/ \E d \in DataFiles : \E ok \in BOOLEAN : WinLoadCsv(d, ok)
    \/ WinPlay
    \/ WinStop
    \/ \E ok \in BOOLEAN : WinReset(ok)
    \/ \E ok \in BOOLEAN : WinTimerTick(ok)
    \/ WinSliderPressed
    \/ \E v \in 0..MaxFrames : \E ok \in BOOLEAN : WinSliderSeek(v, ok)
    \/ \E key \in Keys_ : \E ok \in BOOLEAN : WinKeyPress(key, ok)
    \/ WinKeyTimer

SpecWindow == WindowInit /\ [][WindowNext]_vars

(***************************************************************************)
(* C30                                                                     *)
(***************************************************************************)
\* C30: with data of T frames loaded, after every handler that completed
\* (timer tick, slider seek, key press, and the others) current_time_index
\* equals the slider value and lies in 0..T-1; a handler that changed the
\* index passed a frame to update_scenes, every frame a handler passed is a
\* frame of the data, and the last frame it passed is that of the index it
\* left.
C30_LastWriteWins ==
    [][(alive' /\ ~IsNone(sim_data'))
        => LET T == Val(sim_data').T
               frames == windowCall'.frames
           IN /\ current_time_index' = time_slider'.value
              /\ current_time_index' \in 0..(T - 1)
              /\ current_time_index' # current_time_index => frames # << >>
              /\ \A j \in 1..Len(frames) : frames[j].idx \in 0..(T - 1)
              /\ frames # << >>
                    => frames[Len(frames)].idx = current_time_index']_vars

\* a timer tick that advanced the index to the last of three frames, after
\* the index had been moved by the slider or a key
C30_Witness ==
    /\ alive
    /\ windowCall.op = "next_simulation_step"
    /\ ~IsNone(sim_data)
    /\ Val(sim_data).T = 3
    /\ current_time_index = 2
    /\ windowCall.frames = <<[grid |-> Val(grid).id,
                              scenes |-> Val(grid).scenes,
                              data |-> Val(sim_data).id, idx |-> 2]>>
    /\ ~playing

(***************************************************************************)
(* C31                                                                     *)
(***************************************************************************)
PlayRequested(c) ==
    \/ c.op = "play_simulation"
    \/ c.op = "handle_key_press" /\ c.arg = Some("space")

C32_ErrorStopsPlayback ==
    [][/\ (windowCall'.op = "next_simulation_step"
                /\ ~IsNone(windowCall'.err))
            => /\ ~timer'
               /\ ~playing'
       /\ (windowCall.op = "next_simulation_step" /\ ~IsNone(windowCall.err)
                /\ windowCall'.op = "next_simulation_step")
            => current_time_index' = current_time_index]_vars

(***************************************************************************)
(* C33                                                                     *)
(***************************************************************************)
\* C33: every update_scenes call reaches a grid whose canvases were last
\* reset with the very data the call passes, with no layout load or data
\* load since that reset.
C33_ResetBeforeUpdate ==
    [][\A i \in DOMAIN windowCall'.frames :
           windowCall'.frames[i].scenes = Some(windowCall'.frames[i].data)]_vars

(***************************************************************************)
(* Playback left alone: the user acts only while nothing is playing, and   *)
(* the running QTimer of the grid keeps firing next_simulation_step.       *)
(***************************************************************************)
PlaybackNext ==
    \/ ~playing /\ WindowNext
    \/ \E ok \in BOOLEAN : WinTimerTick(ok)

SpecPlayback ==
    WindowInit /\ [][PlaybackNext]_vars /\ WF_vars(WinTimerTick(TRUE))

(***************************************************************************)
(* C34                                                                     *)
(***************************************************************************)
\* C34: with a layout and data loaded, once play_simulation has started the
\* timer (from any index, the last one included), the ticks lead to a state
\* where playing is False, the timer is stopped and the index is the last
\* frame, unless a canvas raised.
C34_PlaybackTerminates ==
    (alive /\ playing /\ timer /\ ~IsNone(grid) /\ ~IsNone(sim_data))
        ~> \/ ~alive
           \/ /\ ~playing
              /\ ~timer
              /\ ~IsNone(sim_data)
              /\ current_time_index = Val(sim_data).T - 1

(***************************************************************************)
(* C35                                                                     *)
(***************************************************************************)
\* C35: in every state the window reaches, playing is True exactly when the
\* current grid exists and its timer is running.
C35_PlayingAgreesWithTimer ==
    alive => (playing <=> (~IsNone(grid) /\ timer))

(***************************************************************************)
(* C38                                                                     *)
(***************************************************************************)
\* C38: with data loaded, a reset_simulation that completes has called
\* update_scenes exactly once, for frame 0, whatever the slider value was;
\* and a slider move that rendered a frame leaves updated True.
C38_NoRedundantUpdates ==
    [][(alive' /\ ~IsNone(sim_data'))
        => /\ windowCall'.op = "reset_simulation"
                => /\ Len(windowCall'.frames) = 1
                   /\ windowCall'.frames[1].idx = 0
           /\ (windowCall'.op = "slider_seek" /\ windowCall'.frames # << >>)
                => Truthy(updated')]_vars

(***************************************************************************)
(* C36                                                                     *)
(***************************************************************************)
\* C36: after every reset_scene that completed with data of R robots,
\* _robot_objs has exactly R entries and entry i is the bundle this reset
\* registered for robot i.
C36_RobotListMatchesScene ==
    [][(canvasCall'.op = "reset_scene" /\ IsNone(canvasCall'.err))
        => robot_objs' = [i \in 1..Val(canvasCall'.arg) |-> <<gen', i - 1>>]]_vars

(***************************************************************************)
(* SceneObjectBundle.transform on a bundle that has been built             *)
(***************************************************************************)
MaxPose == 6      \* the coordinates transform() leaves stay in this box

\* bundles as built by a caller: one SceneObject, two SceneObjects, and a
\* SceneObject next to a nested bundle
PoseBundles ==
    {<<LeafChild(<<"child", "0">>, TRUE)>>,
     <<LeafChild(<<"child", "0">>, TRUE), LeafChild(<<"child", "1">>, TRUE)>>,
     <<LeafChild(<<"child", "0">>, TRUE), NestedChild(<<"child", "1">>, TRUE)>>}

\* the centre is wanted from _compute_bundle_center
NeedsCentre(a) == IsNone(a.c) /\ (~IsNone(a.R) \/ ~IsNone(a.s))
IsLattice(q) == \A k \in 1..3 : q.num[k] % q.den = 0
QToPoint(q) == [k \in 1..3 |-> q.num[k] \div q.den]

\* every child receives transform(translation, R, scale_factor, center): a
\* SceneObject starts from its default_mesh, a nested bundle hands the
\* centre it was given on to its own children
RECURSIVE ChildrenTransform(_, _)
ChildrenTransform(ch, a) ==
    [j \in 1..Len(ch) |->
        IF ch[j].kind = "obj"
        THEN [ch[j] EXCEPT !.pts =
                 UpdateMeshPoints(@, TransformPts(@, MeshOf(ch[j].name),
                                                  Center(MeshOf(ch[j].name)),
                                                  a))]
        ELSE [ch[j] EXCEPT !.kids = ChildrenTransform(@, a)]]

\* SceneObjectBundle.transform: without a centre, and with a rotation or a
\* scale factor, the centre is that of the meshes as they are now; a centre
\* of None with neither is converted to an array no child reads
BundleTransform(ch, a) ==
    ChildrenTransform(ch,
        IF NeedsCentre(a)
        THEN [a EXCEPT !.c = Some(QToPoint(ComputeBundleCenter(ch)))]
        ELSE a)

\* the bundle with every mesh as constructed
RECURSIVE FreshBundle(_)
FreshBundle(ch) ==
    [j \in 1..Len(ch) |->
        IF ch[j].kind = "obj" THEN [ch[j] EXCEPT !.pts = MeshOf(ch[j].name)]
        ELSE [ch[j] EXCEPT !.kids = FreshBundle(@)]]

RECURSIVE PosePoints(_)
PosePoints(ch) ==
    Flatten([j \in 1..Len(ch) |->
                IF ch[j].kind = "obj" THEN ch[j].pts
                ELSE PosePoints(ch[j].kids)])

InPoseBox(ch) ==
    \A i \in 1..Len(PosePoints(ch)) : \A k \in 1..3 :
        /\ PosePoints(ch)[i][k] >= -MaxPose
        /\ PosePoints(ch)[i][k] <= MaxPose

PoseInit ==
    /\ ctor = [pts |-> EmptyMesh, size |-> 1]
    /\ mesh = EmptyMesh
    /\ default_mesh = EmptyMesh
    /\ default_centroid = Zero3
    /\ lastOp = Call("init", NoArgs)
    /\ prevOp = Call("init", NoArgs)
    /\ CanvasIdle
    /\ GridIdle
    /\ WindowIdle
    /\ children \in PoseBundles
    /\ bundleCall = NoBundleCall

\* bundle.transform(translation, R, scale_factor, center), taken where the
\* centre it computes is a lattice point
PoseTransform(a) ==
    /\ NeedsCentre(a) => IsLattice(ComputeBundleCenter(children))
    /\ InPoseBox(BundleTransform(children, a))
    /\ BundleDone("transform", Some(a), None, BundleTransform(children, a))

PoseNext == \E a \in TransformArgs : PoseTransform(a)

SpecPose == PoseInit /\ [][PoseNext]_vars

(***************************************************************************)
(* C37                                                                     *)
(***************************************************************************)
\* C37: a bundle.transform without an explicit centre is an absolute pose
\* setter: repeating the call with the same arguments leaves every point
\* where the first call put it, and whatever was called before, the points
\* are those the call gives on the bundle as built.
C37_BundleTransformAbsolute ==
    [][(bundleCall'.op = "transform" /\ IsNone(Val(bundleCall'.arg).c))
        => /\ (bundleCall.op = "transform"
                    /\ bundleCall.arg = bundleCall'.arg)
                => PosePoints(children') = PosePoints(children)
           /\ (NeedsCentre(Val(bundleCall'.arg))
                    => IsLattice(ComputeBundleCenter(FreshBundle(children))))
                => children' = BundleTransform(FreshBundle(children),
                                               Val(bundleCall'.arg))]_vars

(***************************************************************************)
(* Plotter3DAttitude on the focus context.  The class derives from         *)
(* _base_plotters.BaseVisualPlotter, whose __init__ connects               *)
(* _robot_focus_changed (a no-op here) before the class connects           *)
(* update_axes_from_rotation.  A call that raises is reported to its       *)
(* caller and the canvas stays as the call left it.                        *)
(***************************************************************************)
MaxAgents == 3    \* greatest robot count of a data set

\* data sets: N robots; labelled when the data has the R_label column
AttitudeData == [N : 1..MaxAgents, labelled : BOOLEAN]

\* update_axes_from_rotation: current_R[robot_focus, :, :] raises IndexError
\* on the 3x3 matrix of __init__ and on a focus that is no row; the axis
\* lookup that follows raises KeyError, since setup_scene (51) stops at
\* set_background, which the base class lacks, before any axis is added
UpdateAxesFromRotation(att, focus) ==
    LET rows == IF IsNone(att.current_R) THEN 0 ELSE Val(att.current_R)
    IN [att EXCEPT !.call.ran = Append(@, [focus |-> focus, rows |-> rows]),
                   !.call.err = IF ~IsNone(@) THEN @
                                ELSE IF focus >= rows THEN Some("IndexError")
                                ELSE Some("KeyError")]

\* reset_scene(sim_data): only num_agents is refreshed
AttitudeResetSceneOf(att, d) ==
    IF ~d.labelled THEN [att EXCEPT !.call.err = Some("KeyError")]
    ELSE [att EXCEPT !.num_agents = d.N]

\* update_all_scene_objects(sim_data, idx)
AttitudeUpdateAll(att, d, focus) ==
    IF ~d.labelled THEN [att EXCEPT !.call.err = Some("KeyError")]
    ELSE UpdateAxesFromRotation([att EXCEPT !.current_R = Some(d.N)], focus)

\* context.robot_focus = value, seen from this canvas: the slots run when
\* the setter emits
AttitudeSetFocus(op, value) ==
    LET r == FocusSetter(robot_focus, prev_robot_focus, Some(value))
        att == [attitude EXCEPT !.call = [NoAttitudeCall EXCEPT !.op = op]]
    IN /\ robot_focus' = r.focus
       /\ prev_robot_focus' = r.prev
       /\ notified' = [s \in 1..NumSubscribers |-> r.seen]
       /\ attitude' = IF Len(r.seen) = 0 THEN att
                      ELSE UpdateAxesFromRotation(att, value)

AttitudeKept ==
    UNCHANGED <<objVars, dimension, scene_objects, objs, surface, robot_objs,
                gen, canvasCall, gridVars, bundleVars, winVars>>

\* __init__ on a context that has no focus yet or has one from canvases
\* built before: a focus of None becomes 0
AttitudeInit ==
    /\ ctor = [pts |-> EmptyMesh, size |-> 1]
    /\ mesh = EmptyMesh
    /\ default_mesh = EmptyMesh
    /\ default_centroid = Zero3
    /\ lastOp = Call("init", NoArgs)
    /\ prevOp = Call("init", NoArgs)
    /\ \E f \in 0..(MaxAgents - 1) : robot_focus = Some(f)
    /\ prev_robot_focus = None
    /\ notified = [s \in 1..NumSubscribers |-> << >>]
    /\ dimension = 2
    /\ scene_objects = << >>
    /\ objs = << >>
    /\ surface = {}
    /\ robot_objs = << >>
    /\ gen = 0
    /\ canvasCall = NoCall
    /\ attitude = AttitudeNew
    /\ GridIdle
    /\ BundleIdle
    /\ WindowIdle

\* the grid resets the canvas with newly loaded data
AttitudeResetScene(d) ==
    /\ d \in AttitudeData
    /\ attitude' = AttitudeResetSceneOf(
                      [attitude EXCEPT !.sim_data = Some(d),
                                       !.call = [NoAttitudeCall EXCEPT
                                                    !.op = "reset_scene"]], d)
    /\ UNCHANGED ctxVars
    /\ AttitudeKept

\* the grid renders a frame of the data it last reset the canvas with
AttitudeUpdateAllSceneObjects ==
    /\ ~IsNone(attitude.sim_data)
    /\ attitude' = AttitudeUpdateAll(
                      [attitude EXCEPT !.call = [NoAttitudeCall EXCEPT
                                 !.op = "update_all_scene_objects"]],
                      Val(attitude.sim_data), Val(robot_focus))
    /\ UNCHANGED ctxVars
    /\ AttitudeKept

\* keyPressEvent with Key_Down (step -1) or Key_Up (step +1)
AttitudeKeyPress(step) ==
    /\ step \in {-1, 1}
    /\ AttitudeSetFocus("keyPressEvent",
                        (Val(robot_focus) + step) % attitude.num_agents)
    /\ AttitudeKept

\* another canvas focuses a robot of the loaded data
AttitudeFocusByOther(v) ==
    /\ ~IsNone(attitude.sim_data)
    /\ v < Val(attitude.sim_data).N
    /\ AttitudeSetFocus("robot_focus", v)
    /\ AttitudeKept

AttitudeNext ==
    \/ \E d \in AttitudeData : AttitudeResetScene(d)
    \/ AttitudeUpdateAllSceneObjects
    \/ \E step \in {-1, 1} : AttitudeKeyPress(step)
    \/ \E v \in 0..(MaxAgents - 1) : AttitudeFocusByOther(v)

SpecAttitude == AttitudeInit /\ [][AttitudeNext]_vars

Rz180 == << <<-1, 0, 0>>, <<0, -1, 0>>, <<0, 0, 1>> >>

\* the icons constructed: the class (dimension 2 or 3), the mesh of the
\* robot factory and the size
IconCtors == [dim : {2, 3}, pts : {SegMesh, TriMesh}, size : {1, 2}]

\* arguments of transform_to: target centroids (two coordinates for Icon2D)
\* and headings in quarter turns, or rotation matrices for Icon3D
IconCentroids(dim) ==
    IF dim = 2 THEN {None, Some(<<1, 1>>), Some(<<0, 0>>), Some(<<2, 1>>)}
    ELSE {None, Some(<<1, 1, 0>>), Some(<<0, 0, 0>>), Some(<<2, 1, 1>>)}
IconHeadings == {None, Some(1), Some(2)}
IconRotations == {None, Some(Rz90), Some(Rx90)}

\* the matrix Icon2D builds from cos and sin of the heading
HeadingMatrix(h) == IF h = 1 THEN Rz90 ELSE Rz180

\* Icon2D.transform_to(centroid, heading)
Icon2DTransformTo(cur, dflt, dc, centroid, heading) ==
    LET translation == IF IsNone(centroid) THEN Zero3
                       ELSE VSub(<<Val(centroid)[1], Val(centroid)[2], 0>>, dc)
        R == IF IsNone(heading) THEN None
             ELSE Some(HeadingMatrix(Val(heading)))
    IN [pts |-> UpdateMeshPoints(cur,
                    TransformPts(cur, dflt, dc,
                                 [t |-> Some(translation), R |-> R,
                                  s |-> None, c |-> Some(dc)])),
        err |-> None]

\* Icon3D.transform_to(centroid, R): original_centroid is bound only in the
\* branch taken for a given centroid
Icon3DTransformTo(cur, dflt, dc, centroid, R) ==
    IF IsNone(centroid)
    THEN [pts |-> cur, err |-> Some("UnboundLocalError")]
    ELSE [pts |-> UpdateMeshPoints(cur,
                    TransformPts(cur, dflt, dc,
                                 [t |-> Some(VSub(Val(centroid), dc)),
                                  R |-> R, s |-> None, c |-> Some(dc)])),
          err |-> None]

IconInit ==
    /\ \E k \in IconCtors :
           /\ ctor = k
           /\ mesh = CtorMesh(k)
           /\ default_mesh = CtorMesh(k)
           /\ default_centroid = CtorCentroid(k)
    /\ lastOp = [op |-> "init", a |-> None, err |-> None]
    /\ prevOp = Call("init", NoArgs)
    /\ CanvasIdle
    /\ GridIdle
    /\ BundleIdle
    /\ WindowIdle

IconDone(a, r) ==
    /\ mesh' = r.pts
    /\ lastOp' = [op |-> "transform_to", a |-> Some(a), err |-> r.err]
    /\ UNCHANGED <<default_mesh, default_centroid, ctor, prevOp>>
    /\ UNCHANGED <<ctxVars, canvasVars, gridVars, bundleVars, winVars>>

IconTransformTo2D(centroid, heading) ==
    /\ ctor.dim = 2
    /\ IconDone([centroid |-> centroid, R |-> heading],
                Icon2DTransformTo(mesh, default_mesh, default_centroid,
                                  centroid, heading))

IconTransformTo3D(centroid, R) ==
    /\ ctor.dim = 3
    /\ IconDone([centroid |-> centroid, R |-> R],
                Icon3DTransformTo(mesh, default_mesh, default_centroid,
                                  centroid, R))

IconNext ==
    \/ \E centroid \in IconCentroids(2) : \E heading \in IconHeadings :
           IconTransformTo2D(centroid, heading)
    \/ \E centroid \in IconCentroids(3) : \E R \in IconRotations :
           IconTransformTo3D(centroid, R)

SpecIcon == IconInit /\ [][IconNext]_vars

(***************************************************************************)
(* C40                                                                     *)
(***************************************************************************)
\* C40: Icon3D.transform_to without a centroid completes without error and
\* leaves the default mesh rotated by R about the default centroid and not
\* translated (the default pose when R is omitted too), as
\* Icon2D.transform_to does.
C40_OmittedCentroid ==
    [][(lastOp'.op = "transform_to" /\ IsNone(Val(lastOp'.a).centroid))
        => /\ IsNone(lastOp'.err)
           /\ ctor.dim = 3
                => mesh' = IF IsNone(Val(lastOp'.a).R) THEN default_mesh
                           ELSE RotateAbout(default_mesh, Val(Val(lastOp'.a).R),
                                            default_centroid)]_vars

====
